---- MODULE Spec2Model ----
(***************************************************************************)
(* spokes-receive-pack: the push session of internal/spokes (Exec and      *)
(* execute) as a state machine.  One behaviour is one invocation of the    *)
(* process.  The client's packets, the repository's configuration and the  *)
(* results of the child processes (for-each-ref, index-pack, rev-list,     *)
(* merge-base) are the environment: each is drawn from a small set at the  *)
(* step where the code reads it.  The governor and the reference store of  *)
(* the repository are fixed when the process starts.                       *)
(***************************************************************************)
EXTENDS Integers, Sequences, FiniteSets, TLC

----------------------------------------------------------------------------
(* Bounds of the model *)

\* most commands a client sends in one command block
MaxCmds == 2
\* most push-option packets a client sends in the push-options block
MaxOpts == 2
\* most shallow packets a client sends in the command block
MaxShallow == 1
\* most side-band packets index-pack's stderr is forwarded in
MaxProgress == 1
\* most packets one packet reader is asked to read
MaxReads == 2
\* most rules in a list of hide rules given to isHiddenRef
MaxRules == 3
\* most replies of wait a governor sends before its last reply
MaxWaits == 2

----------------------------------------------------------------------------
(* Values *)

nullSHA1OID == "0000000000000000000000000000000000000000"
nullSHA256OID == "0000000000000000000000000000000000000000000000000000000000000000"

\* the (old, new) object ids of the commands a client sends: a creation,
\* an update and a deletion, over the null id and two commits
OIDPairs == { <<nullSHA1OID, "aaaa">>, <<"aaaa", "bbbb">>,
              <<"aaaa", nullSHA1OID>> }

\* a string is a sequence of characters; NUL is the byte 0
NUL == "NUL"
RefHidden == <<"r", "/", "h", "/", "u">>
RefHeads == <<"r", "/", "m">>
Refnames == {RefHidden, RefHeads}

\* the values of receive.hiderefs followed by those of transfer.hiderefs
\* the rule lists of the advertisements that are followed on every store:
\* those of RuleLists, an unhide rule that comes before the rule that hides,
\* and an unhide rule for a ref that no rule hides
AdvertisedRuleLists ==
    { << <<"r", "/", "h">> >>,
      << <<"r", "/", "h">>, <<"!", "r", "/", "h", "/", "u">> >>,
      << <<"!", "r", "/", "h", "/", "u">>, <<"r", "/", "h">> >>,
      << <<"r", "/", "h">>, <<"!", "r", "/", "m">> >> }

RuleLists ==
    { << <<"r", "/", "h">> >>,
      << <<"r", "/", "h">>, <<"!", "r", "/", "h", "/", "u">> >> }

\* capability names, internal/pktline
ReportStatus == "report-status"
ReportStatusV2 == "report-status-v2"
SideBand == "side-band"
SideBand64k == "side-band-64k"
PushOptions == "push-options"

\* what follows the NUL of a packet: a list of capability tokens, each a
\* name with the number of "=" signs in the token
Tok(n) == [name |-> n, eqs |-> 0]
NoTail == [nul |-> FALSE, toks |-> <<>>]
CapTails ==
    { [nul |-> TRUE, toks |-> << Tok(ReportStatus), Tok(SideBand64k) >>],
      [nul |-> TRUE, toks |-> << Tok(ReportStatusV2), Tok(PushOptions) >>],
      [nul |-> TRUE, toks |-> << [name |-> "agent", eqs |-> 2] >>] }
Tails == {NoTail} \cup CapTails

\* values a numeric configuration key can hold ("" is: not set)
ConfigValues == {"", "NaN", "0", "1"}

----------------------------------------------------------------------------
(* Pure functions *)

HasPrefix(s, p) == Len(p) <= Len(s) /\ SubSeq(s, 1, Len(p)) = p

isNegativeRef(ref) ==
    IF HasPrefix(ref, <<"!">>)
    THEN [neg |-> TRUE, stripped |-> Tail(ref)]
    ELSE [neg |-> FALSE, stripped |-> ref]

RECURSIVE isHiddenRefFrom(_, _, _, _)
isHiddenRefFrom(ref, hiddenRefs, i, isHidden) ==
    IF i > Len(hiddenRefs) THEN isHidden
    ELSE LET r == isNegativeRef(hiddenRefs[i])
         IN  isHiddenRefFrom(ref, hiddenRefs, i + 1,
                 IF HasPrefix(ref, r.stripped) THEN ~r.neg ELSE isHidden)

\* isHiddenRef that hides a refname as soon as one hide rule matches it
isHiddenRefAnyHide(ref, hiddenRefs) ==
    \E i \in 1..Len(hiddenRefs) :
       /\ ~isNegativeRef(hiddenRefs[i]).neg
       /\ HasPrefix(ref, isNegativeRef(hiddenRefs[i]).stripped)

isHiddenRef(ref, hiddenRefs) == isHiddenRefFrom(ref, hiddenRefs, 1, FALSE)

\* getHiddenRefs: the values of receive.hiderefs, then those of
\* transfer.hiderefs
getHiddenRefs(receive, transfer) == receive \o transfer

isUpdate(c) ==
    /\ c.oldOID # nullSHA1OID /\ c.oldOID # nullSHA256OID
    /\ c.newOID # nullSHA1OID /\ c.newOID # nullSHA256OID

isDelete(c) == c.newOID = nullSHA1OID \/ c.newOID = nullSHA256OID

\* includeNonDeletes looking at the first command only
includeNonDeletesFirstOnly(cmds) ==
    Len(cmds) > 0 /\ cmds[1].newOID # nullSHA1OID
                  /\ cmds[1].newOID # nullSHA256OID

includeNonDeletes(cmds) ==
    \E i \in 1..Len(cmds) :
        cmds[i].newOID # nullSHA1OID /\ cmds[i].newOID # nullSHA256OID

\* config.ParseSigned on the values of ConfigValues
ParseSigned(str) ==
    CASE str = "0" -> [err |-> FALSE, n |-> 0]
      [] str = "1" -> [err |-> FALSE, n |-> 1]
      [] OTHER     -> [err |-> TRUE, n |-> 0]

\* getRefUpdateCommandLimit, getPushOptionsCountLimit, getMaxInputSize,
\* getWarnObjectSize: an unset key is 0, a set key is parsed
getLimit(value) ==
    IF value # "" THEN ParseSigned(value) ELSE [err |-> FALSE, n |-> 0]

\* exceedsLimit with the comparison off by one
exceedsLimitInclusive(n, limit) == limit > 0 /\ n >= limit

\* the test both limits use: a limit that is not positive is no limit
exceedsLimit(n, limit) == limit > 0 /\ n > limit

\* pktline.ParseCapabilities: a token with more than one "=" is an error
ParseCapabilities(payload) ==
    IF \E i \in 1..Len(payload) : payload[i].eqs > 1
    THEN [err |-> TRUE, caps |-> {}]
    ELSE [err |-> FALSE, caps |-> {payload[i].name : i \in 1..Len(payload)}]

IsDefined(caps, name) == name \in caps

useSideBand(caps) == IsDefined(caps, SideBand) \/ IsDefined(caps, SideBand64k)

commandsForConnectivityCheck(cmds) ==
    SelectSeq(cmds, LAMBDA c : c.err = "" /\ ~isDelete(c))

\* performCheckConnectivity's stage "write-new-values": the lines it writes
\* to the input of rev-list
writeNewValues(cmds) == [i \in 1..Len(cmds) |-> cmds[i].newOID]

\* the input of the collective rev-list; it is not run when there is no
\* command to check
revListStdin(cmds) ==
    IF Len(commandsForConnectivityCheck(cmds)) = 0 THEN <<>>
    ELSE writeNewValues(cmds)

\* the lines writeReport produces, without the framing
ReportLine(c) ==
    IF c.err # "" THEN <<"ng", c.refname, c.err>>
    ELSE <<c.reportFF, c.refname>>

\* writeReport that lists the commands from the last to the first
writeReportReversed(unpackOK, cmds) ==
    [unpack |-> IF unpackOK THEN "unpack ok" ELSE "unpack index-pack failed",
     lines  |-> [i \in 1..Len(cmds) |->
                    ReportLine(cmds[Len(cmds) + 1 - i])]]

writeReport(unpackOK, cmds) ==
    [unpack |-> IF unpackOK THEN "unpack ok" ELSE "unpack index-pack failed",
     lines  |-> [i \in 1..Len(cmds) |-> ReportLine(cmds[i])]]

----------------------------------------------------------------------------
(* The governor, internal/governor *)

\* what one round of Start's schedule loop can meet:
\*   "deadline"  SetReadDeadline fails
\*   "write"     the schedule request cannot be written
\*   "continue", "fail"  the governor's reply
\*   "wait", "wait 2", "wait x"  the governor's reply wait: alone, with a
\*               number of seconds, with a word that is not a number
\*   "other"     a reply that is none of the three
\*   "error"     the reply cannot be read, the error is not a timeout
\*   "timeout"   no reply within the read deadline
\* A governor is: does the socket accept the connection, is the update
\* request written, what the rounds of the schedule loop meet, and the value
\* of FAIL_CLOSED in the environment of the process.
Gov(connectOK, updateOK, replies, failClosed) ==
    [connect |-> connectOK, update |-> updateOK, replies |-> replies,
     failClosed |-> failClosed]

GovAbsent == Gov(FALSE, TRUE, <<>>, "")
GovRefusing == Gov(TRUE, TRUE, <<"fail">>, "")
GovScheduling == Gov(TRUE, TRUE, <<"continue">>, "")
GovThrottling == Gov(TRUE, TRUE, <<"wait", "continue">>, "")
GovStalling == Gov(TRUE, TRUE, <<"wait", "fail">>, "")
GovGarbled == Gov(TRUE, TRUE, <<"other">>, "")
GovSilent(failClosed) == Gov(TRUE, TRUE, <<"timeout">>, failClosed)

\* the governors under which a whole push is followed
PushGovernorEnvs ==
    { GovRefusing, GovScheduling, GovThrottling, GovGarbled,
      GovSilent("0"), GovSilent("1") }

GovernorEnvs ==
    PushGovernorEnvs \cup
    { GovAbsent,
      Gov(TRUE, FALSE, <<>>, ""),
      Gov(TRUE, TRUE, <<"error">>, ""),
      Gov(TRUE, TRUE, <<"error">>, "1"),
      Gov(TRUE, TRUE, <<"other">>, "1"),
      Gov(TRUE, TRUE, <<"write">>, ""),
      Gov(TRUE, TRUE, <<"deadline">>, ""),
      GovStalling,
      Gov(TRUE, TRUE, <<"wait", "other">>, ""),
      Gov(TRUE, TRUE, <<"wait", "timeout">>, "1"),
      Gov(TRUE, TRUE, <<"wait", "deadline">>, ""),
      Gov(TRUE, TRUE, <<"wait", "write">>, ""),
      Gov(TRUE, TRUE, <<"wait 2", "wait x", "continue">>, ""),
      GovSilent("") }

\* the replies whose first word is wait
WaitReplies == {"wait", "wait 2", "wait x"}

\* strings.SplitN of a wait reply: the words after "wait"
waitWords(reply) ==
    CASE reply = "wait 2" -> <<"2">>
      [] reply = "wait x" -> <<"x">>
      [] OTHER            -> <<>>

\* strconv.Atoi on the second word of a wait reply
Atoi(word) ==
    CASE word = "2" -> [err |-> FALSE, n |-> 2]
      [] OTHER      -> [err |-> TRUE, n |-> 0]

\* waitDuration that sleeps no time when the number cannot be parsed
waitDurationStrict(reply) ==
    LET words == waitWords(reply)
    IN  IF Len(words) > 0 /\ ~Atoi(words[1]).err THEN Atoi(words[1]).n
        ELSE 0

\* schedule, the Duration of the WaitError in seconds: one second, or the
\* second word of the reply when it is a number
waitDuration(reply) ==
    LET words == waitWords(reply)
    IN  IF Len(words) > 0 /\ ~Atoi(words[1]).err THEN Atoi(words[1]).n
        ELSE 1

\* shouldFailClosed that never holds
shouldFailClosedNever(value) == FALSE

\* shouldFailClosed: FAIL_CLOSED is "1"
shouldFailClosed(value) == value = "1"

\* schedule that takes the reply "fail" for an unexpected response
scheduleFailUnknown(reply) ==
    CASE reply = "write"    -> [sent |-> FALSE, err |-> "net.Error"]
      [] reply = "continue" -> [sent |-> TRUE, err |-> ""]
      [] reply \in WaitReplies -> [sent |-> TRUE, err |-> "WaitError"]
      [] reply = "timeout"  -> [sent |-> TRUE, err |-> "net.Error timeout"]
      [] reply = "error"    -> [sent |-> TRUE, err |-> "net.Error"]
      [] OTHER              -> [sent |-> TRUE, err |-> "unexpected response"]

\* schedule: write the request, read the reply line, parse its first word
\*   sent  the request was written to the socket
\*   err   the error schedule returns ("" is nil)
schedule(reply) ==
    CASE reply = "write"    -> [sent |-> FALSE, err |-> "net.Error"]
      [] reply = "continue" -> [sent |-> TRUE, err |-> ""]
      [] reply \in WaitReplies -> [sent |-> TRUE, err |-> "WaitError"]
      [] reply = "fail"     -> [sent |-> TRUE, err |-> "FailError"]
      [] reply = "timeout"  -> [sent |-> TRUE, err |-> "net.Error timeout"]
      [] reply = "error"    -> [sent |-> TRUE, err |-> "net.Error"]
      [] OTHER              -> [sent |-> TRUE, err |-> "unexpected response"]

\* onScheduleError that returns every error it does not know to the caller
onScheduleErrorStrict(err, failClosed) ==
    CASE err = "WaitError" -> "retry"
      [] err = "net.Error timeout" ->
           IF failClosed THEN "return err" ELSE "return nil"
      [] OTHER -> "return err"

\* onScheduleError that gives up on the first reply of wait
onScheduleErrorGiveUp(err, failClosed) ==
    CASE err = "WaitError" -> "return nil"
      [] err = "FailError" -> "return err"
      [] err = "net.Error timeout" ->
           IF failClosed THEN "return err" ELSE "return nil"
      [] OTHER -> "return nil"

\* Start, the switch on the error of schedule
onScheduleError(err, failClosed) ==
    CASE err = "WaitError" -> "retry"
      [] err = "FailError" -> "return err"
      [] err = "net.Error timeout" ->
           IF failClosed THEN "return err" ELSE "return nil"
      [] OTHER -> "return nil"

\* Start, one round of the schedule loop: what the loop does next
\*   "return conn"  leave the loop and return the handle
\*   "retry"        sleep and go round again
\*   "return err"   close the socket, return the error
\*   "return nil"   close the socket, return neither handle nor error
\* with the error of schedule and whether the request was written
scheduleRound(reply, failClosed) ==
    IF reply = "deadline"
    THEN [todo |-> "return conn", err |-> "", sent |-> FALSE]
    ELSE LET res == schedule(reply)
         IN  [todo |-> IF res.err = "" THEN "return conn"
                       ELSE onScheduleError(res.err,
                                            shouldFailClosed(failClosed)),
              err  |-> res.err,
              sent |-> res.sent]

\* Start that sends finish and closes the connection before the loop
StartFinishNow(env, done) ==
    IF done \/ ~env.connect THEN [conn |-> "nil", sent |-> <<>>]
    ELSE IF ~env.update THEN [conn |-> "nil", sent |-> <<>>]
    ELSE [conn |-> "closed", sent |-> <<"update", "finish">>]

\* Start, up to the schedule loop: connect and update; done is whether the
\* context is cancelled when the socket is dialled
Start(env, done) ==
    IF done \/ ~env.connect THEN [conn |-> "nil", sent |-> <<>>]
    ELSE IF ~env.update THEN [conn |-> "nil", sent |-> <<>>]
    ELSE [conn |-> "open", sent |-> <<"update">>]

\* Finish that never writes to the governor
ConnFinishSilent(conn, sent) == [conn |-> conn, sent |-> sent]

\* (*Conn).Finish: a no-op on a nil handle and on a closed connection
ConnFinish(conn, sent) ==
    IF conn # "open" THEN [conn |-> conn, sent |-> sent]
    ELSE [conn |-> "closed", sent |-> Append(sent, "finish")]

----------------------------------------------------------------------------
(* The reference store and the lines of the advertisement *)

RefLine(ref) == [kind |-> "ref", name |-> ref]
HaveLine == [kind |-> "have", name |-> <<>>]
LonelyLine == [kind |-> "capabilities^{}", name |-> <<>>]

\* the packet advertiseRef writes for a line: "%s\n", or "%s\x00%s\n" with
\* the capabilities; lf is whether the payload ends with a newline
advertiseRef(line, withCaps) == [line |-> line, caps |-> withCaps, lf |-> TRUE]

\* the packet written when no line carried the capabilities:
\* "%s capabilities^{}\x00%s" of the null OID and the capabilities
lonelyPacket == [line |-> LonelyLine, caps |-> TRUE, lf |-> FALSE]

\* a reference store: the refs of the repository in for-each-ref's order,
\* whether the repository is a fork whose network repository is found, the
\* .have lines of the network repository, and the sockstat flag
\* spokes_receive_pack_isolated_reference_discovery
Store(refs, parent, haves, isolated) ==
    [refs |-> refs, parent |-> parent, haves |-> haves,
     isolated |-> isolated]

SimpleStore == Store(<<RefHeads>>, FALSE, <<>>, FALSE)

RefStores ==
    { Store(refs, fork[1], fork[2], isolated) :
        refs \in { <<>>, <<RefHeads>>, <<RefHidden, RefHeads>> },
        fork \in { <<FALSE, <<>>>>, <<TRUE, <<>>>>, <<TRUE, <<HaveLine>>>> },
        isolated \in BOOLEAN }

\* the rules that hide, and the rules that unhide without their "!"
hiddenPatterns(rules) ==
    SelectSeq(rules, LAMBDA rule : Len(rule) > 0 /\ rule[1] # "!")

unhiddenPatterns(rules) ==
    LET neg == SelectSeq(rules, LAMBDA rule : Len(rule) > 0 /\ rule[1] = "!")
    IN  [i \in 1..Len(neg) |-> Tail(neg[i])]

\* git for-each-ref <patterns> --exclude=<excludes> over the refs
forEachRef(refs, patterns, excludes) ==
    SelectSeq(refs, LAMBDA ref :
        /\ Len(patterns) = 0
             \/ \E i \in 1..Len(patterns) : HasPrefix(ref, patterns[i])
        /\ ~\E i \in 1..Len(excludes) : HasPrefix(ref, excludes[i]))

\* a stage of the discovery: the lines its for-each-ref still has to hand
\* to advertiseRef, and where the call of advertiseRef on the first of them
\* stands: "idle", "sawFalse" (read wroteCapabilities as false), "caps"
\* (set it, about to write the capability packet), "plain" (read it as
\* true, about to write the line alone)
Stage(lines) == [lines |-> lines, pending |-> "idle"]

\* the stages performReferenceDiscovery sets up: the refs that are not
\* hidden, the refs that are unhidden if a rule unhides, the .have lines of
\* the network repository if there is one
discoveryStages(store, rules) ==
    LET own == forEachRef(store.refs, <<>>, hiddenPatterns(rules))
        unhidden == forEachRef(store.refs, unhiddenPatterns(rules), <<>>)
    IN  << Stage([i \in 1..Len(own) |-> RefLine(own[i])]) >>
        \o (IF Len(unhiddenPatterns(rules)) > 0
            THEN << Stage([i \in 1..Len(unhidden) |-> RefLine(unhidden[i])]) >>
            ELSE << >>)
        \o (IF store.parent THEN << Stage(store.haves) >> ELSE << >>)

\* afterDiscovery that always goes on to the commands
afterDiscoveryAlways(advertise) == "commands"

\* execute, after the discovery: with --advertise-refs it returns nil
afterDiscovery(advertise) == IF advertise THEN "return" ELSE "commands"

----------------------------------------------------------------------------
(* Packets: the reader of internal/pktline and the writer of internal/spokes *)

\* a string of bytes, up to the values of its bytes that are not NUL: its
\* length and the positions, from 1, of its NUL bytes
Bytes(len, nuls) == [len |-> len, nuls |-> nuls]

Empty == Bytes(0, {})

\* b[from:to]: the bytes of b from position from + 1 to position to
Slice(b, from, to) ==
    Bytes(to - from, {k - from : k \in {n \in b.nuls : from < n /\ n <= to}})

\* bytes.IndexByte(b, 0): the index, from 0, of the first NUL, or -1
IndexByteNUL(b) ==
    IF b.nuls = {} THEN -1
    ELSE (CHOOSE k \in b.nuls : \A n \in b.nuls : k <= n) - 1

MaxPayload == 65519
HeaderSize == 4
maxPacketDataLength == 65516

\* a length header is a string of characters: a hex digit is its value, 0
\* to 15, and any other character is 16
NotHex == 16

\* fmt's "%04x" of a number below 65536
Hex4(n) == << n \div 4096, (n \div 256) % 16, (n \div 16) % 16, n % 16 >>

\* strconv.ParseUint(header, 16, 16) of a header of four characters
ParseUint(header) ==
    IF \E i \in 1..4 : header[i] = NotHex
    THEN [err |-> TRUE, n |-> 0]
    ELSE [err |-> FALSE,
          n |-> header[1] * 4096 + header[2] * 256 + header[3] * 16
                + header[4]]

\* Size that takes MaxPayload for the largest size
SizeNarrow(header) ==
    LET parsed == ParseUint(header)
    IN  IF parsed.err THEN [err |-> "illformed pktline size", n |-> 0]
        ELSE IF parsed.n > MaxPayload
             THEN [err |-> "invalid pkt-line length", n |-> 0]
        ELSE [err |-> "", n |-> parsed.n]

\* (*Pktline).Size: the size of the packet, header included
Size(header) ==
    LET parsed == ParseUint(header)
    IN  IF parsed.err THEN [err |-> "illformed pktline size", n |-> 0]
        ELSE IF parsed.n > HeaderSize + MaxPayload + 1
             THEN [err |-> "invalid pkt-line length", n |-> 0]
        ELSE [err |-> "", n |-> parsed.n]

\* pl.buf[4:], what Payload is after Reset; the contents of the buffer are
\* not followed
Buffer == Bytes(MaxPayload + 1, {})

\* pktline.New: a reader that has read nothing; err is what the last Read
\* returned ("" is nil)
New == [payloadSize |-> <<>>, Payload |-> Buffer,
        CapabilitiesPayload |-> Empty, processedCapabilities |-> FALSE,
        err |-> ""]

\* splitNeeded that holds for every packet
splitNeededAlways(processed) == TRUE

\* Read's test before it looks for a NUL
splitNeeded(processed) == ~processed

\* (*Pktline).Read of an input that holds the characters of a header (fewer
\* than four at the end of the input) and, after it, the bytes of body
Read(p, in) ==
    LET r == [p EXCEPT !.payloadSize = in.header, !.Payload = Buffer,
                       !.err = ""]
    IN  IF Len(in.header) = 0 THEN [r EXCEPT !.err = "EOF"]
        ELSE IF Len(in.header) < HeaderSize
             THEN [r EXCEPT !.err = "reading pktline size"]
        ELSE IF Size(in.header).err # ""
             THEN [r EXCEPT !.err = Size(in.header).err]
        ELSE IF Size(in.header).n <= HeaderSize
             THEN [r EXCEPT !.Payload = Empty]
        ELSE IF in.body.len < Size(in.header).n - HeaderSize
             THEN [r EXCEPT !.err = "reading pktline data"]
        ELSE LET payload == Slice(in.body, 0, Size(in.header).n - HeaderSize)
                 index == IndexByteNUL(payload)
             IN  IF splitNeeded(p.processedCapabilities) /\ index # -1
                 THEN [r EXCEPT
                         !.Payload = Slice(payload, 0, index),
                         !.CapabilitiesPayload =
                             Slice(payload, index + 1, payload.len),
                         !.processedCapabilities = TRUE]
                 ELSE [r EXCEPT !.Payload = payload]

\* the end of the input
EOFInput == [header |-> <<>>, body |-> Empty]

\* writePacketLine that writes the length of the data as the header
writePacketLineBare(data) ==
    IF data.len > maxPacketDataLength
    THEN [err |-> "data exceeds maximum pkt-line length", out |-> <<>>]
    ELSE [err |-> "", out |-> << [header |-> Hex4(data.len), body |-> data] >>]

\* writePacketLine: the packets written, none on an error
writePacketLine(data) ==
    IF data.len > maxPacketDataLength
    THEN [err |-> "data exceeds maximum pkt-line length", out |-> <<>>]
    ELSE [err |-> "",
          out |-> << [header |-> Hex4(HeaderSize + data.len),
                      body |-> data] >>]

\* writePacketf on the formatted data: nothing is written for no data
writePacketf(data) ==
    IF data.len = 0 THEN [err |-> "", out |-> <<>>]
    ELSE writePacketLine(data)

\* io.ReadFull that takes all the input holds
readFullGreedy(avail, want) == avail

\* io.ReadFull(r, buf[:want]) on an input that holds avail bytes: the
\* number of bytes it takes from the input
readFull(avail, want) == IF avail < want THEN avail ELSE want

\* the number of bytes (*Pktline).Read takes from the input: the header,
\* and the data only of a packet whose size is accepted and above four
consumed(in) ==
    LET header == readFull(Len(in.header), HeaderSize)
    IN  IF header < HeaderSize \/ Size(in.header).err # ""
           \/ Size(in.header).n <= HeaderSize
        THEN header
        ELSE header + readFull(in.body.len, Size(in.header).n - HeaderSize)

\* sideBandBufSize that takes the size of side-band-64k for every client
sideBandBufSizeWide(caps) == 65519

\* sideBandBufSize: the size of the multiplexer's buffer, and report's
\* packetMax
sideBandBufSize(caps) == IF IsDefined(caps, SideBand64k) THEN 65519 ELSE 999

\* a side-band packet that holds output[from:to], with the header written
SideBandPacket(kind, from, to, header) ==
    [kind |-> kind, from |-> from, to |-> to, header |-> header]

\* fmt.Fprintf(r.output, "0000")
FlushPacket == SideBandPacket("flush", 0, 0, <<0, 0, 0, 0>>)

\* report's loop over output[from:], where output is len bytes long: the
\* packets written and the error returned
RECURSIVE reportChunks(_, _, _)
reportChunks(from, len, packetMax) ==
    IF len - from <= 0 THEN [err |-> "", out |-> <<>>]
    ELSE LET n == IF len - from < packetMax - 5 THEN len - from
                  ELSE packetMax - 5
             w == writePacketf(Bytes(1 + n, {}))
         IN  IF w.err # ""
             THEN [err |-> "writing output to client", out |-> <<>>]
             ELSE LET more == reportChunks(from + n, len, packetMax)
                  IN  [err |-> more.err,
                       out |-> << SideBandPacket("band1", from, from + n,
                                                 w.out[1].header) >>
                               \o more.out]

\* report, with a side band, of a report that writeReport wrote as len
\* bytes: the chunks, then the flush
reportSideBand(len, caps) ==
    LET chunks == reportChunks(0, len, sideBandBufSize(caps))
    IN  IF chunks.err # "" THEN chunks
        ELSE [err |-> "", out |-> Append(chunks.out, FlushPacket)]

\* the multiplexer's writePacketf("\x02%s", buf[:n]) of n bytes read
muxPacket(n) ==
    LET w == writePacketf(Bytes(1 + n, {}))
    IN  IF w.err # ""
        THEN [err |-> "writing to error sideband", out |-> <<>>]
        ELSE [err |-> "",
              out |-> << SideBandPacket("band2", 0, n, w.out[1].header) >>]

\* nothing was sent on a side band
NoSent == [op |-> "", caps |-> {}, len |-> 0, err |-> "", out |-> <<>>]

\* no packet was written
NoPacket == [via |-> "", payload |-> Empty, err |-> ""]

\* isHiddenRef was not called
NoCall == [ref |-> <<>>, receive |-> <<>>, transfer |-> <<>>, hidden |-> FALSE]

----------------------------------------------------------------------------
(* State *)

VARIABLES
    pc,                \* position of the process in Exec / execute
    signals,           \* a signal can reach the process
    cancelled,         \* the context of Exec is done
    atSignal,          \* where the process stood when the signal arrived
    governorEnv,       \* the governor the process finds
    govConn,           \* the governor handle: nil, open, closed
    govSent,           \* the messages written to the governor, in order
    finishCode,        \* finish.ResultCode of the governor handle
    govRound,          \* the round of Start's schedule loop
    govSlept,          \* the seconds Start slept, sleep by sleep
    receivePackSize,   \* finish.ReceivePackSize of the governor handle
    refStore,          \* the reference store the discovery reads
    stages,            \* the stages of the discovery that is running
    wroteCapabilities, \* the flag of the same name of the discovery
    advertisement,     \* the packets of the advertisement written so far
    advertiseRefs,     \* --http-backend-info-refs / --advertise-refs
    statelessRPC,      \* --stateless-rpc
    hiddenRefs,        \* getHiddenRefs(): the hide rules of the configuration
    plProcessed,       \* pl.processedCapabilities of readCommands' reader
    plCapsPayload,     \* pl.CapabilitiesPayload of readCommands' reader
    first,             \* readCommands: no non-shallow packet seen yet
    capabilities,      \* the client's capability set
    commands,          \* the commands read, with err and reportFF
    received,          \* the refnames of the command packets, as they arrived
    shallowInfo,       \* number of shallow records collected
    updateCommandLimit,\* receive.refupdatecommandlimit as parsed
    pushOptionsCount,  \* option packets counted by dumpPushOptions
    optionsCountLimit, \* receive.pushoptionscountlimit as parsed
    quarantine,        \* the quarantine directory: absent, present, removed
    indexPackStarted,  \* git index-pack was started on the session's input
    mux,               \* the side-band multiplexer: none, running, done,
                       \* failed (it returned an error)
    stderrPipe,        \* the pipe of index-pack's stderr: none, empty,
                       \* unread (it holds bytes), full, closed
    clientOut,         \* what is written to the client after the commands
    revListInput,      \* the lines written to the collective rev-list
    unpackErr,         \* what readPack returned ("" is nil)
    collectiveErr,     \* performCheckConnectivity returned an error
    missing,           \* new OIDs whose individual rev-list check fails
    report,            \* what the report phase wrote to the client
    events,            \* the first occurrence of each protocol event, in order
    exitCode,          \* the process exit code (-1 while running)
    errMsg,            \* the error Exec returns ("" is nil)
    pl,                \* a packet reader of internal/pktline
    stream,            \* what the reader was given to read, read by read
    rest,              \* the bytes of the last input that Read left unread
    wrote,             \* the payload last written as a packet, and how
    call,              \* the last call of isHiddenRef, with its result
    sent               \* the packets a writer of side-band packets wrote

\* what is fixed when the process starts
sessionEnv == <<signals, governorEnv, refStore, advertiseRefs, statelessRPC,
                hiddenRefs>>

\* the cancellation of the context of Exec
signalVars == <<cancelled, atSignal>>

\* the state of Start's schedule loop
handshakeVars == <<govRound, govSlept>>

\* the state of index-pack's helpers in readPack
packVars == <<mux, stderrPipe, receivePackSize>>

\* the packet reader and the functions that are followed on their own
fnVars == <<pl, stream, rest, wrote, call, sent>>

\* the state of the reference discovery
discoveryVars == <<stages, wroteCapabilities, advertisement>>

\* the state of execute after the reference discovery
pushVars == <<plProcessed, plCapsPayload, first, capabilities, commands,
              received, shallowInfo, updateCommandLimit, pushOptionsCount,
              optionsCountLimit, indexPackStarted, unpackErr, collectiveErr,
              missing, report>>

vars == <<pc, sessionEnv, signalVars, fnVars, handshakeVars, packVars,
          clientOut, revListInput, discoveryVars, pushVars, govConn, govSent, finishCode,
          quarantine, events, exitCode, errMsg>>

NoReport == [state |-> "none", unpack |-> "", lines |-> <<>>]

\* no signal has arrived
NoSignal == [pc |-> "", sent |-> 0, quarantine |-> ""]

\* the state of a process that has just started
InitSession ==
    /\ pc = "exec"
    /\ cancelled = FALSE
    /\ atSignal = NoSignal
    /\ govConn = "nil"
    /\ govSent = <<>>
    /\ finishCode = 0
    /\ govRound = 0
    /\ govSlept = <<>>
    /\ receivePackSize = 0
    /\ mux = "none"
    /\ stderrPipe = "none"
    /\ clientOut = <<>>
    /\ revListInput = <<>>
    /\ pl = New
    /\ stream = <<>>
    /\ rest = 0
    /\ wrote = NoPacket
    /\ call = NoCall
    /\ sent = NoSent
    /\ stages = <<>>
    /\ wroteCapabilities = FALSE
    /\ advertisement = <<>>
    /\ plProcessed = FALSE
    /\ plCapsPayload = <<>>
    /\ first = TRUE
    /\ capabilities = {}
    /\ commands = <<>>
    /\ received = <<>>
    /\ shallowInfo = 0
    /\ updateCommandLimit = 0
    /\ pushOptionsCount = 0
    /\ optionsCountLimit = 0
    /\ quarantine = "absent"
    /\ indexPackStarted = FALSE
    /\ unpackErr = ""
    /\ collectiveErr = FALSE
    /\ missing = {}
    /\ report = NoReport
    /\ events = <<>>
    /\ exitCode = -1
    /\ errMsg = ""

\* a push, or an advertisement, to a repository with one ref and no
\* network repository, with no governor or a governor that refuses, at
\* once or after a wait; a signal can reach an advertisement
Init ==
    /\ InitSession
    /\ governorEnv \in {GovAbsent, GovRefusing, GovStalling}
    /\ refStore = SimpleStore
    /\ advertiseRefs \in BOOLEAN
    /\ signals \in BOOLEAN
    /\ signals => advertiseRefs
    /\ statelessRPC \in BOOLEAN
    /\ hiddenRefs \in RuleLists

\* every governor; a whole push is followed under the governors of
\* PushGovernorEnvs, an advertisement under each of them
InitGov ==
    /\ InitSession
    /\ governorEnv \in GovernorEnvs
    /\ refStore = SimpleStore
    /\ advertiseRefs \in BOOLEAN
    /\ advertiseRefs \/ governorEnv \in PushGovernorEnvs
    /\ signals \in BOOLEAN
    /\ signals => (advertiseRefs /\ governorEnv = GovThrottling)
    /\ statelessRPC = FALSE
    /\ hiddenRefs = << <<"r", "/", "h">> >>

\* every reference store; a whole push is followed on the store of Init
\* under the rule lists of Init, an advertisement on each store under each
\* list of AdvertisedRuleLists
InitAdv ==
    /\ InitSession
    /\ governorEnv \in {GovAbsent, GovStalling}
    /\ refStore \in RefStores
    /\ advertiseRefs \in BOOLEAN
    /\ advertiseRefs \/ refStore = SimpleStore
    /\ signals \in BOOLEAN
    /\ signals => (advertiseRefs /\ refStore = SimpleStore)
    /\ statelessRPC = FALSE
    /\ hiddenRefs \in AdvertisedRuleLists
    /\ hiddenRefs \in RuleLists \/ (advertiseRefs /\ ~signals)

\* a process that a signal can reach at any time: an advertisement, with no
\* governor or a governor that says wait, then continue, or a push over the
\* stateless protocol with no governor
InitSig ==
    /\ InitSession
    /\ signals = TRUE
    /\ governorEnv \in {GovAbsent, GovThrottling}
    /\ refStore = SimpleStore
    /\ advertiseRefs \in BOOLEAN
    /\ advertiseRefs \/ governorEnv = GovAbsent
    /\ statelessRPC = ~advertiseRefs
    /\ hiddenRefs = << <<"r", "/", "h">> >>

\* the event log: the first packet read of a block is logged once
\* ("cmd_read", "opt_read"), every other event each time it happens
Logged(log, ev) == \E i \in 1..Len(log) : log[i] = ev
LogRead(log, ev) == IF Logged(log, ev) THEN log ELSE Append(log, ev)

\* RemoveQuarantine that leaves the directory in place
RemoveQuarantineNoop(q) == q

\* RemoveQuarantine: os.RemoveAll of the quarantine folder
RemoveQuarantine(q) == IF q = "present" THEN "removed" ELSE q

\* SetError that leaves the result code as it is
SetErrorNoop(conn, current, code) == current

\* (*Conn).SetError: a no-op on a nil handle
SetError(conn, current, code) == IF conn = "nil" THEN current ELSE code

\* Exec's deferred g.Finish, run when Exec returns
DeferredFinish ==
    /\ govConn' = ConnFinish(govConn, govSent).conn
    /\ govSent' = ConnFinish(govConn, govSent).sent

\* Exec, when execute returned the error msg: clean up, exit code 1
ExecFail(msg, q) ==
    /\ pc' = "exited"
    /\ exitCode' = 1
    /\ errMsg' = msg
    /\ finishCode' = SetError(govConn, finishCode, 1)
    /\ quarantine' = RemoveQuarantine(q)
    /\ DeferredFinish

\* Exec, when execute returned nil
ExecSucceed ==
    /\ pc' = "exited"
    /\ exitCode' = 0
    /\ errMsg' = ""
    /\ UNCHANGED <<finishCode, quarantine>>
    /\ DeferredFinish

----------------------------------------------------------------------------
(* Exec, up to the call of execute *)

\* the arguments and the repository directory
ExecArgs ==
    /\ pc = "exec"
    /\ \E ok \in BOOLEAN :
         IF ok
         THEN /\ pc' = "start"
              /\ UNCHANGED <<exitCode, errMsg>>
         ELSE /\ pc' = "exited" /\ exitCode' = 1
              /\ errMsg' = "arguments"
    /\ UNCHANGED <<sessionEnv, signalVars, fnVars, handshakeVars,
                   packVars, clientOut, revListInput, discoveryVars, pushVars, govConn, govSent, finishCode,
                   quarantine, events>>

\* an interrupt, terminate or hangup signal: the context of Exec is done
Signal ==
    /\ signals /\ ~cancelled
    /\ pc # "exited"
    /\ cancelled' = TRUE
    /\ atSignal' = [pc |-> pc, sent |-> Len(govSent),
                    quarantine |-> quarantine]
    /\ UNCHANGED <<pc, sessionEnv, fnVars, handshakeVars, packVars,
                   clientOut, revListInput, discoveryVars, pushVars, govConn,
                   govSent, finishCode, quarantine, events, exitCode, errMsg>>

\* governor.Start, up to its schedule loop
GovernorStart ==
    /\ pc = "start"
    /\ LET g == Start(governorEnv, cancelled)
       IN  /\ govConn' = g.conn
           /\ govSent' = g.sent
           /\ IF g.conn = "nil"
              THEN pc' = "setup" /\ govRound' = 0
              ELSE pc' = "schedule" /\ govRound' = 1
    /\ UNCHANGED <<finishCode, sessionEnv, signalVars, fnVars, govSlept, packVars,
                   clientOut, revListInput, discoveryVars, pushVars,
                   quarantine, events, exitCode, errMsg>>

\* one round of Start's schedule loop, and Exec's return of 75 on the error
\* of Start
GovernorSchedule ==
    /\ pc = "schedule"
    /\ LET r == scheduleRound(governorEnv.replies[govRound],
                              governorEnv.failClosed)
       IN  /\ govSent' = IF r.sent THEN Append(govSent, "schedule")
                         ELSE govSent
           /\ CASE r.todo = "return conn" ->
                      /\ pc' = "setup"
                      /\ UNCHANGED <<govConn, exitCode, errMsg>>
                [] r.todo = "retry" ->
                      /\ pc' = "sleeping"
                      /\ UNCHANGED <<govConn, exitCode, errMsg>>
                [] r.todo = "return nil" ->
                      /\ pc' = "setup"
                      /\ govConn' = "nil"
                      /\ UNCHANGED <<exitCode, errMsg>>
                [] r.todo = "return err" ->
                      /\ pc' = "exited"
                      /\ govConn' = "nil"
                      /\ exitCode' = 75
                      /\ errMsg' = r.err
    /\ UNCHANGED <<finishCode, sessionEnv, signalVars, fnVars, handshakeVars, packVars,
                   clientOut, revListInput, discoveryVars, pushVars,
                   quarantine, events>>

\* Start's sleep for the Duration of the WaitError, before the next round
GovernorSleep ==
    /\ pc = "sleeping"
    /\ govSlept' = Append(govSlept,
                          waitDuration(governorEnv.replies[govRound]))
    /\ govRound' = govRound + 1
    /\ pc' = "schedule"
    /\ UNCHANGED <<sessionEnv, signalVars, fnVars, packVars, clientOut,
                   revListInput, discoveryVars, pushVars, govConn, govSent, finishCode,
                   quarantine, events, exitCode, errMsg>>

\* the configuration, the object format and the quarantine id
ExecSetup ==
    /\ pc = "setup"
    /\ \E ok \in BOOLEAN :
         IF ok
         THEN /\ pc' = "discovery"
              /\ UNCHANGED <<exitCode, errMsg, govConn, govSent, finishCode>>
         ELSE /\ pc' = "exited" /\ exitCode' = 1
              /\ errMsg' = "setup"
              /\ finishCode' = SetError(govConn, finishCode, 1)
              /\ DeferredFinish
    /\ UNCHANGED <<sessionEnv, signalVars, fnVars, handshakeVars,
                   packVars, clientOut, revListInput, discoveryVars, pushVars, quarantine, events>>

----------------------------------------------------------------------------
(* execute: reference discovery *)

\* execute's test for the discovery, and the stages the discovery sets up
ReferenceDiscovery ==
    /\ pc = "discovery"
    /\ IF advertiseRefs \/ ~statelessRPC
       THEN \E failpoint \in BOOLEAN :
              /\ events' = Append(events, "adv_begin")
              /\ IF failpoint
                 THEN /\ ExecFail("reference discovery", quarantine)
                      /\ UNCHANGED stages
                 ELSE /\ stages' = discoveryStages(refStore, hiddenRefs)
                      /\ pc' = "advertising"
                      /\ UNCHANGED <<exitCode, errMsg, govConn, govSent, finishCode,
                                     quarantine>>
       ELSE /\ pc' = "commands"
            /\ UNCHANGED <<stages, events, exitCode, errMsg, govConn,
                           govSent, finishCode, quarantine>>
    /\ UNCHANGED <<sessionEnv, signalVars, fnVars, handshakeVars,
                   packVars, clientOut, revListInput, wroteCapabilities, advertisement, pushVars>>

\* the stages whose line function can take a step: every stage that has a
\* line when the stages are chained in one pipeline, the first stage that
\* has a line when each stage is run in a pipeline of its own
Running(i) ==
    /\ stages[i].lines # <<>>
    /\ refStore.isolated => \A j \in 1..(i - 1) : stages[j].lines = <<>>

\* advertiseRef: the test of wroteCapabilities
AdvertiseTest ==
    /\ pc = "advertising"
    /\ \E i \in 1..Len(stages) :
         /\ Running(i)
         /\ stages[i].pending = "idle"
         /\ stages' = [stages EXCEPT ![i].pending =
                          IF wroteCapabilities THEN "plain" ELSE "sawFalse"]
    /\ UNCHANGED <<pc, sessionEnv, signalVars, fnVars, handshakeVars,
                   packVars, clientOut, revListInput, wroteCapabilities, advertisement,
                   pushVars, govConn, govSent, finishCode, quarantine, events, exitCode,
                   errMsg>>

\* advertiseRef: wroteCapabilities = true
AdvertiseSet ==
    /\ pc = "advertising"
    /\ \E i \in 1..Len(stages) :
         /\ Running(i)
         /\ stages[i].pending = "sawFalse"
         /\ stages' = [stages EXCEPT ![i].pending = "caps"]
    /\ wroteCapabilities' = TRUE
    /\ UNCHANGED <<pc, sessionEnv, signalVars, fnVars, handshakeVars,
                   packVars, clientOut, revListInput, advertisement, pushVars, govConn,
                   govSent, finishCode, quarantine, events, exitCode, errMsg>>

\* advertiseRef: the packet of the line, with or without the capabilities
AdvertiseWrite ==
    /\ pc = "advertising"
    /\ \E i \in 1..Len(stages), ok \in BOOLEAN :
         /\ Running(i)
         /\ stages[i].pending \in {"caps", "plain"}
         /\ IF ok
            THEN /\ advertisement' =
                      Append(advertisement,
                             advertiseRef(Head(stages[i].lines),
                                          stages[i].pending = "caps"))
                 /\ stages' = [stages EXCEPT
                                  ![i] = Stage(Tail(stages[i].lines))]
                 /\ UNCHANGED <<pc, exitCode, errMsg, govConn, govSent, finishCode,
                                quarantine>>
            ELSE /\ ExecFail("reference discovery", quarantine)
                 /\ UNCHANGED <<stages, advertisement>>
    /\ UNCHANGED <<sessionEnv, signalVars, fnVars, handshakeVars,
                   packVars, clientOut, revListInput, wroteCapabilities, pushVars, events>>

\* the end of the discovery: the pipelines have run, the lonely capability
\* packet is written if no line carried the capabilities, then the flush
DiscoveryDone ==
    /\ pc = "advertising"
    /\ \A i \in 1..Len(stages) : stages[i].lines = <<>>
    /\ \E ok \in BOOLEAN :
         IF ok
         THEN /\ advertisement' =
                   IF wroteCapabilities THEN advertisement
                   ELSE Append(advertisement, lonelyPacket)
              /\ events' = Append(events, "adv_flush")
              /\ stages' = <<>>
              /\ wroteCapabilities' = FALSE
              /\ IF afterDiscovery(advertiseRefs) = "return"
                 THEN ExecSucceed
                 ELSE /\ pc' = "commands"
                      /\ UNCHANGED <<exitCode, errMsg, govConn, govSent, finishCode,
                                     quarantine>>
         ELSE /\ ExecFail("reference discovery", quarantine)
              /\ UNCHANGED <<discoveryVars, events>>
    /\ UNCHANGED <<sessionEnv, signalVars, fnVars, handshakeVars,
                   packVars, clientOut, revListInput, pushVars>>

----------------------------------------------------------------------------
(* execute: readCommands, one packet of the command block per step *)

\* the packets a client can send in the command block
CommandPackets ==
    { [kind |-> "cmd", oldOID |-> p[1], newOID |-> p[2], refname |-> r,
       tail |-> t] : p \in OIDPairs, r \in Refnames, t \in Tails }
ShallowPackets == [kind : {"shallow"}, parts : {2, 3}]
BogusPackets == [kind : {"bogus"}, tail : {NoTail}]

\* pl.Read: the capability split is done on the first packet that holds a NUL
SplitApplies(pkt) == ~plProcessed /\ pkt.tail.nul

\* the refname the command regexp captures from the payload pl.Read returns:
\* a NUL that was not split off, and what follows it, stay in the refname
PayloadRefname(pkt) ==
    IF pkt.tail.nul /\ ~SplitApplies(pkt) THEN Append(pkt.refname, NUL)
    ELSE pkt.refname

\* NewCommand that marks a hidden ref ng without recording the reason
NewCommandNoReason(pkt) ==
    LET ref == PayloadRefname(pkt)
        hidden == isHiddenRef(ref, hiddenRefs)
    IN  [refname  |-> ref,
         oldOID   |-> pkt.oldOID,
         newOID   |-> pkt.newOID,
         err      |-> "",
         reportFF |-> IF hidden THEN "ng" ELSE ""]

\* the command readCommands builds from a matching payload
NewCommand(pkt) ==
    LET ref == PayloadRefname(pkt)
        hidden == isHiddenRef(ref, hiddenRefs)
    IN  [refname  |-> ref,
         oldOID   |-> pkt.oldOID,
         newOID   |-> pkt.newOID,
         err      |-> IF hidden THEN "deny updating a hidden ref" ELSE "",
         reportFF |-> IF hidden THEN "ng" ELSE ""]

\* readCommands, the loop body on a read error
ReadCommandError ==
    /\ pc = "commands"
    /\ events' = LogRead(events, "cmd_read")
    /\ ExecFail("reading commands", quarantine)
    /\ UNCHANGED <<sessionEnv, signalVars, fnVars, handshakeVars,
                   packVars, clientOut, revListInput, discoveryVars, received, plProcessed,
                   plCapsPayload, first, capabilities, commands, shallowInfo,
                   updateCommandLimit, pushOptionsCount, optionsCountLimit,
                   indexPackStarted, unpackErr, collectiveErr, missing,
                   report>>

\* readCommands, the loop body on a shallow packet
ReadShallow ==
    /\ pc = "commands"
    /\ shallowInfo < MaxShallow
    /\ \E pkt \in ShallowPackets :
         IF pkt.parts # 2
         THEN /\ ExecFail("wrong shallow structure", quarantine)
              /\ UNCHANGED shallowInfo
         ELSE /\ shallowInfo' = shallowInfo + 1
              /\ UNCHANGED <<pc, exitCode, errMsg, govConn, govSent, finishCode, quarantine>>
    /\ events' = LogRead(events, "cmd_read")
    /\ UNCHANGED <<sessionEnv, signalVars, fnVars, handshakeVars,
                   packVars, clientOut, revListInput, discoveryVars, received, plProcessed,
                   plCapsPayload, first, capabilities, commands,
                   updateCommandLimit, pushOptionsCount, optionsCountLimit,
                   indexPackStarted, unpackErr, collectiveErr, missing,
                   report>>

\* readCommands, the loop body on any other packet that is not a flush
ReadCommand ==
    /\ pc = "commands"
    /\ \E pkt \in CommandPackets \cup BogusPackets :
         LET split   == SplitApplies(pkt)
             payload == IF split THEN pkt.tail.toks ELSE plCapsPayload
             parsed  == ParseCapabilities(payload)
         IN
         /\ pkt.kind = "cmd" => Len(commands) < MaxCmds
         /\ plProcessed' = (plProcessed \/ split)
         /\ plCapsPayload' = payload
         /\ IF first /\ parsed.err
            THEN /\ ExecFail("processing capabilities", quarantine)
                 /\ UNCHANGED <<first, capabilities, commands, received>>
            ELSE /\ first' = FALSE
                 /\ capabilities' = IF first THEN parsed.caps ELSE capabilities
                 /\ IF pkt.kind = "cmd"
                    THEN /\ commands' = Append(commands, NewCommand(pkt))
                         /\ received' = Append(received, PayloadRefname(pkt))
                         /\ UNCHANGED <<pc, exitCode, errMsg, govConn,
                                        govSent, finishCode, quarantine>>
                    ELSE /\ ExecFail("bogus command", quarantine)
                         /\ UNCHANGED <<commands, received>>
    /\ events' = LogRead(events, "cmd_read")
    /\ UNCHANGED <<sessionEnv, signalVars, fnVars, handshakeVars,
                   packVars, clientOut, revListInput, discoveryVars, shallowInfo,
                   updateCommandLimit, pushOptionsCount, optionsCountLimit,
                   indexPackStarted, unpackErr, collectiveErr, missing,
                   report>>

\* afterCommands that never drains the push-options block
afterCommandsNoDrain(caps) == "prepare"

\* execute, after readCommands: the push-options block is drained if the
\* client declared push-options
afterCommands(caps) ==
    IF IsDefined(caps, PushOptions) THEN "options" ELSE "prepare"

\* noCommands that never holds
noCommandsNever(cmds) == FALSE

\* execute's test after readCommands: there is nothing to do
noCommands(cmds) == Len(cmds) = 0

\* readCommands on the flush packet: the command limit, and execute's
\* return when there is no command
ReadCommandsFlush ==
    /\ pc = "commands"
    /\ events' = Append(LogRead(events, "cmd_read"), "cmd_flush")
    /\ \E value \in ConfigValues :
         LET limit == getLimit(value)
         IN  IF limit.err
             THEN /\ ExecFail("parsing refupdatecommandlimit", quarantine)
                  /\ UNCHANGED updateCommandLimit
             ELSE /\ updateCommandLimit' = limit.n
                  /\ IF exceedsLimit(Len(commands), limit.n)
                     THEN ExecFail("maximum ref updates exceeded", quarantine)
                     ELSE IF noCommands(commands)
                          THEN ExecSucceed
                          ELSE /\ pc' = afterCommands(capabilities)
                               /\ UNCHANGED <<exitCode, errMsg, govConn, govSent, finishCode, quarantine>>
    \* readCommands returns: its reader and its shallow records are dropped
    /\ plProcessed' = FALSE
    /\ plCapsPayload' = <<>>
    /\ shallowInfo' = 0
    /\ UNCHANGED <<sessionEnv, signalVars, fnVars, handshakeVars,
                   packVars, clientOut, revListInput, discoveryVars, received, first,
                   capabilities, commands, pushOptionsCount,
                   optionsCountLimit, indexPackStarted, unpackErr,
                   collectiveErr, missing, report>>

----------------------------------------------------------------------------
(* execute: dumpPushOptions, one packet of the push-options block per step *)

DumpPushOptions ==
    /\ pc = "options"
    /\ \E outcome \in {"error", "flush", "option"} :
         CASE outcome = "error" ->
                /\ ExecFail("error reading push-options", quarantine)
                /\ events' = LogRead(events, "opt_read")
                /\ UNCHANGED pushOptionsCount
           [] outcome = "flush" ->
                /\ pc' = "prepare"
                /\ events' = Append(LogRead(events, "opt_read"), "opt_flush")
                /\ UNCHANGED <<pushOptionsCount, exitCode, errMsg, govConn, govSent, finishCode, quarantine>>
           [] outcome = "option" ->
                /\ pushOptionsCount < MaxOpts
                /\ pushOptionsCount' = pushOptionsCount + 1
                /\ events' = LogRead(events, "opt_read")
                /\ UNCHANGED <<pc, exitCode, errMsg, govConn, govSent, finishCode, quarantine>>
    /\ UNCHANGED <<sessionEnv, signalVars, fnVars, handshakeVars,
                   packVars, clientOut, revListInput, discoveryVars, received, plProcessed,
                   plCapsPayload, first, capabilities, commands, shallowInfo,
                   updateCommandLimit, optionsCountLimit, indexPackStarted,
                   unpackErr, collectiveErr, missing, report>>

----------------------------------------------------------------------------
(* execute: the push-options limit and the quarantine directory *)

\* RejectAll that leaves the commands rejected earlier as they are
RejectAllKeepRejected(cmds, reason) ==
    [i \in 1..Len(cmds) |->
        IF cmds[i].err # "" THEN cmds[i]
        ELSE [cmds[i] EXCEPT !.err = reason, !.reportFF = "ng"]]

\* RejectAll that sets ng without the reason
RejectAllNoReason(cmds, reason) ==
    [i \in 1..Len(cmds) |-> [cmds[i] EXCEPT !.reportFF = "ng"]]

\* execute's loop that rejects every command
RejectAll(cmds, reason) ==
    [i \in 1..Len(cmds) |-> [cmds[i] EXCEPT !.err = reason, !.reportFF = "ng"]]

\* makeQuarantineDirs that creates nothing
makeQuarantineDirsNothing(q) == q

\* makeQuarantineDirs: os.MkdirAll of the pack directory of the quarantine
makeQuarantineDirs(q) == "present"

PrepareQuarantine ==
    /\ pc = "prepare"
    /\ \E value \in ConfigValues, mkdirOK \in BOOLEAN :
         LET limit == getLimit(value)
         IN  IF limit.err
             THEN /\ ExecFail("parsing pushoptionscountlimit", quarantine)
                  /\ UNCHANGED <<optionsCountLimit, commands>>
             ELSE /\ optionsCountLimit' = limit.n
                  /\ commands' =
                       IF exceedsLimit(pushOptionsCount, limit.n)
                       THEN RejectAll(commands,
                                "push options count exceeds maximum")
                       ELSE commands
                  /\ IF mkdirOK
                     THEN /\ quarantine' = makeQuarantineDirs(quarantine)
                          /\ pc' = "readpack"
                          /\ UNCHANGED <<exitCode, errMsg, govConn, govSent, finishCode>>
                     ELSE ExecFail("creating quarantine dirs", quarantine)
    /\ UNCHANGED <<sessionEnv, signalVars, fnVars, handshakeVars,
                   packVars, clientOut, revListInput, discoveryVars, received, plProcessed,
                   plCapsPayload, first, capabilities, shallowInfo,
                   updateCommandLimit, pushOptionsCount, indexPackStarted,
                   unpackErr, collectiveErr, missing, report, events>>

----------------------------------------------------------------------------
(* execute: readPack *)

\* getMaxInputSize: an import has a fixed limit, else receive.maxsize
getMaxInputSize(importing, value) ==
    IF importing THEN [err |-> FALSE, n |-> 40]
    ELSE getLimit(value)

\* what readPack returns, and whether it started index-pack:
\*   "pipe"  a pipe of the child could not be created
\*   "start" the child could not be started
\*   "wait"  index-pack ran and failed
\*   ""      index-pack ran and succeeded
readPack(cmds, importing, maxsize, warnobjectsize, child) ==
    IF ~includeNonDeletes(cmds) THEN [err |-> "", started |-> FALSE]
    ELSE IF getMaxInputSize(importing, maxsize).err
         THEN [err |-> "parsing maxsize", started |-> FALSE]
    ELSE IF getLimit(warnobjectsize).err
         THEN [err |-> "parsing warnobjectsize", started |-> FALSE]
    ELSE IF child \in {"pipe", "start"}
         THEN [err |-> child, started |-> FALSE]
    ELSE [err |-> child, started |-> TRUE]

\* startSidebandMultiplexer: the task runs if the client uses a side band
startSidebandMultiplexer(caps) ==
    IF useSideBand(caps) THEN "running" ELSE "none"

\* muxJoined that does not wait for the multiplexer
muxJoinedSkipped(m) == TRUE

\* readPack's eg.Wait: the multiplexer, if there is one, has returned
muxJoined(m) == m # "running"

\* how the task that collects index-pack's stdout fares against cmd.Wait,
\* which closes the pipe it reads, and against readPack's wait of a second:
\*   "read"    it read the line of the pack and handed it over in time
\*   "closed"  the pipe was closed before it read the line
\*   "late"    it hands over nothing within the second
CollectorTimings == {"read", "closed", "late"}

\* the size of the pack index-pack stored
StoredPackSize == 1

\* readPack's select: the size of the pack named by index-pack's output, 0
\* when the output does not name a pack or does not arrive
collectedPackSize(timing) ==
    IF timing = "read" THEN StoredPackSize ELSE 0

\* (*Conn).SetReceivePackSize: a no-op on a nil handle and on a size of 0
SetReceivePackSize(conn, current, size) ==
    IF conn = "nil" THEN current
    ELSE IF size > 0 THEN size ELSE current

\* readPack, up to the start of index-pack; under a context that is done
\* the child is not started
ReadPack ==
    /\ pc = "readpack"
    /\ \E importing \in BOOLEAN, maxsize \in ConfigValues,
          warnobjectsize \in ConfigValues,
          child \in (IF cancelled THEN {"pipe", "start"}
                     ELSE {"pipe", "start", ""}) :
         LET res == readPack(commands, importing, maxsize, warnobjectsize,
                             child)
         IN  /\ indexPackStarted' = res.started
             /\ events' = IF res.started THEN Append(events, "pack_start")
                          ELSE events
             /\ IF res.started
                THEN /\ pc' = "indexpack"
                     /\ mux' = startSidebandMultiplexer(capabilities)
                     /\ stderrPipe' = "empty"
                     /\ UNCHANGED <<unpackErr, commands>>
                ELSE /\ unpackErr' = res.err
                     /\ UNCHANGED <<mux, stderrPipe>>
                     /\ IF res.err # ""
                        THEN /\ commands' = RejectAll(commands,
                                                "error processing packfiles")
                             /\ pc' = "report"
                        ELSE /\ pc' = "connectivity"
                             /\ UNCHANGED commands
    /\ UNCHANGED <<sessionEnv, signalVars, fnVars, handshakeVars,
                   receivePackSize, clientOut, revListInput, discoveryVars,
                   received, plProcessed, plCapsPayload, first, capabilities,
                   shallowInfo, updateCommandLimit, pushOptionsCount,
                   optionsCountLimit, quarantine, collectiveErr, missing,
                   report, exitCode, errMsg, govConn, govSent, finishCode>>

\* the side-band packets of index-pack's stderr written so far
Progress == Len(SelectSeq(clientOut, LAMBDA item : item = "band2"))

\* index-pack writes to its stderr while no multiplexer reads the pipe: the
\* bytes stay in the pipe, and index-pack blocks in the write that finds
\* the pipe full
IndexPackStderr ==
    /\ pc = "indexpack"
    /\ mux = "none"
    /\ stderrPipe \in {"empty", "unread"}
    /\ stderrPipe' = IF stderrPipe = "empty" THEN "unread" ELSE "full"
    /\ UNCHANGED <<pc, sessionEnv, signalVars, fnVars, handshakeVars, mux,
                   receivePackSize, clientOut, revListInput, discoveryVars,
                   pushVars, govConn, govSent, finishCode, quarantine, events,
                   exitCode, errMsg>>

\* the multiplexer read bytes of index-pack's stderr and writes them to the
\* client as one side-band packet; it ends if the write fails
MuxWrite ==
    /\ mux = "running"
    /\ Progress < MaxProgress
    /\ \E ok \in BOOLEAN :
         IF ok
         THEN /\ clientOut' = Append(clientOut, "band2")
              /\ UNCHANGED mux
         ELSE /\ mux' = "failed"
              /\ UNCHANGED clientOut
    /\ UNCHANGED <<pc, sessionEnv, signalVars, fnVars, handshakeVars,
                   stderrPipe, receivePackSize, revListInput, discoveryVars, pushVars,
                   govConn, govSent, finishCode, quarantine, events, exitCode, errMsg>>

\* the multiplexer meets the end of index-pack's stderr, or cannot read it
MuxEnd ==
    /\ mux = "running"
    /\ mux' = "done"
    /\ UNCHANGED <<pc, sessionEnv, signalVars, fnVars, handshakeVars,
                   stderrPipe, receivePackSize, clientOut, revListInput, discoveryVars,
                   pushVars, govConn, govSent, finishCode, quarantine, events, exitCode,
                   errMsg>>

\* readPack from eg.Wait on: the multiplexer has ended, index-pack is waited
\* for, and its output is taken from the collector; a child that a signal
\* killed is a child that failed. An index-pack that is blocked writing to
\* its stderr does not exit before a signal kills it. Wait closes the pipe
WaitIndexPack ==
    /\ pc = "indexpack"
    /\ muxJoined(mux)
    /\ stderrPipe = "full" => cancelled
    /\ stderrPipe' = "closed"
    /\ \E waitErr \in (IF stderrPipe = "full" THEN {"wait"}
                        ELSE {"wait", ""}),
          timing \in CollectorTimings :
         /\ unpackErr' = waitErr
         /\ IF waitErr # ""
            THEN /\ commands' = RejectAll(commands,
                                    "error processing packfiles")
                 /\ pc' = "report"
                 /\ UNCHANGED receivePackSize
            ELSE /\ pc' = "connectivity"
                 /\ receivePackSize' =
                      SetReceivePackSize(govConn, receivePackSize,
                                         collectedPackSize(timing))
                 /\ UNCHANGED commands
    /\ UNCHANGED <<sessionEnv, signalVars, fnVars, handshakeVars, mux,
                   clientOut, revListInput, discoveryVars, received,
                   plProcessed, plCapsPayload, first, capabilities,
                   shallowInfo, updateCommandLimit, pushOptionsCount,
                   optionsCountLimit, quarantine, indexPackStarted,
                   collectiveErr, missing, report, events, exitCode, errMsg,
                   govConn, govSent, finishCode>>

----------------------------------------------------------------------------
(* execute: the connectivity checks and the fast-forward detection *)

\* CheckCommand that rejects a command on the collective failure alone
CheckCommandNoRetry(c, collErr, failing, ffOn, ffPairs) ==
    IF c.err # "" THEN c
    ELSE LET singleObjectErr == collErr /\ ~isDelete(c)
             c1 == IF singleObjectErr
                   THEN [c EXCEPT !.err = "missing necessary objects",
                                  !.reportFF = "ng"]
                   ELSE [c EXCEPT !.reportFF = "ok"]
         IN  IF ~singleObjectErr /\ isUpdate(c) /\ ffOn
             THEN [c1 EXCEPT !.reportFF =
                       IF <<c.oldOID, c.newOID>> \in ffPairs
                       THEN "ff" ELSE "nf"]
             ELSE c1

\* the body of execute's loop over the commands; under a context that is
\* done every child fails
\*   collErr  the collective check failed
\*   failing  the new OIDs whose individual check fails
\*   ffOn     receive.reportStatusFF is "true"
\*   ffPairs  the (old, new) pairs for which merge-base --is-ancestor succeeds
CheckCommand(c, collErr, failing, ffOn, ffPairs) ==
    IF c.err # "" THEN c
    ELSE LET singleObjectErr == collErr /\ ~isDelete(c) /\ c.newOID \in failing
             c1 == IF singleObjectErr
                   THEN [c EXCEPT !.err = "missing necessary objects",
                                  !.reportFF = "ng"]
                   ELSE [c EXCEPT !.reportFF = "ok"]
         IN  IF ~singleObjectErr /\ isUpdate(c) /\ ffOn
             THEN [c1 EXCEPT !.reportFF =
                       IF <<c.oldOID, c.newOID>> \in ffPairs
                       THEN "ff" ELSE "nf"]
             ELSE c1

CheckConnectivity ==
    /\ pc = "connectivity"
    /\ LET checked == commandsForConnectivityCheck(commands)
           oids == {checked[i].newOID : i \in 1..Len(checked)}
           pairs == {<<commands[i].oldOID, commands[i].newOID>> :
                        i \in {j \in 1..Len(commands) : isUpdate(commands[j])}}
       IN  \E collErr \in (IF Len(checked) = 0 THEN {FALSE}
                           ELSE IF cancelled THEN {TRUE} ELSE BOOLEAN),
              ffOn \in BOOLEAN :
             \E failing \in (IF ~collErr THEN {{}}
                              ELSE IF cancelled THEN {oids} ELSE SUBSET oids),
                ffPairs \in (IF ffOn /\ ~cancelled THEN SUBSET pairs
                              ELSE {{}}) :
               /\ collectiveErr' = collErr
               /\ missing' = failing
               /\ commands' = [i \in 1..Len(commands) |->
                     CheckCommand(commands[i], collErr, failing, ffOn, ffPairs)]
    /\ revListInput' = revListStdin(commands)
    /\ pc' = "report"
    /\ UNCHANGED <<sessionEnv, signalVars, fnVars, handshakeVars,
                   packVars, clientOut, discoveryVars, received, plProcessed,
                   plCapsPayload, first, capabilities, shallowInfo,
                   updateCommandLimit, pushOptionsCount, optionsCountLimit,
                   quarantine, indexPackStarted, unpackErr, report, events,
                   exitCode, errMsg, govConn, govSent, finishCode>>

----------------------------------------------------------------------------
(* execute: report *)

\* WantsReport that knows report-status only
WantsReportV1Only(caps) == IsDefined(caps, ReportStatus)

\* the client asked for a report
WantsReport(caps) ==
    IsDefined(caps, ReportStatusV2) \/ IsDefined(caps, ReportStatus)

\* how the writes of report can end:
\*   "ok"      every byte was written
\*   "error"   a write of a report packet failed: report returns the error
\*   "noflush" side-band only: the closing flush failed, report returns nil
ReportOutcomes(caps) ==
    IF useSideBand(caps) THEN {"ok", "error", "noflush"} ELSE {"ok", "error"}

Report ==
    /\ pc = "report"
    /\ IF WantsReport(capabilities)
       THEN \E outcome \in ReportOutcomes(capabilities) :
              LET r == writeReport(unpackErr = "", commands)
              IN  IF outcome = "error"
                  THEN /\ report' = [state |-> "partial", unpack |-> "",
                                     lines |-> <<>>]
                       /\ clientOut' = Append(clientOut, "report")
                       /\ events' = Append(events, "report_begin")
                       /\ ExecFail("writing report", quarantine)
                  ELSE /\ report' = [state |-> IF outcome = "ok"
                                               THEN "complete" ELSE "noflush",
                                     unpack |-> r.unpack, lines |-> r.lines]
                       /\ clientOut' = Append(clientOut, "report")
                       /\ events' = events \o <<"report_begin", "report_end">>
                       /\ pc' = "finish"
                       /\ UNCHANGED <<exitCode, errMsg, govConn, govSent, finishCode, quarantine>>
       ELSE /\ pc' = "finish"
            /\ UNCHANGED <<report, clientOut, events, exitCode, errMsg,
                           govConn, govSent, finishCode, quarantine>>
    /\ UNCHANGED <<sessionEnv, signalVars, fnVars, handshakeVars,
                   packVars, revListInput, discoveryVars, received, plProcessed,
                   plCapsPayload, first, capabilities, commands, shallowInfo,
                   updateCommandLimit, pushOptionsCount, optionsCountLimit,
                   indexPackStarted, unpackErr, collectiveErr, missing>>

----------------------------------------------------------------------------
(* execute: the return value, and Exec's exit code *)

\* what execute returns after the report; failpoint is whether the
\* "unpack-error" failpoint is enabled and returns true
executeResult(failpoint, unpackError) ==
    IF failpoint THEN "error performing the unpack process"
    ELSE IF unpackError # "" THEN "index-pack"
    ELSE ""

Finish ==
    /\ pc = "finish"
    /\ \E failpoint \in BOOLEAN :
         LET err == executeResult(failpoint, unpackErr)
         IN  IF err # "" THEN ExecFail(err, quarantine) ELSE ExecSucceed
    /\ UNCHANGED <<sessionEnv, signalVars, fnVars, handshakeVars,
                   packVars, clientOut, revListInput, discoveryVars, received, plProcessed,
                   plCapsPayload, first, capabilities, commands, shallowInfo,
                   updateCommandLimit, pushOptionsCount, optionsCountLimit,
                   indexPackStarted, unpackErr, collectiveErr, missing,
                   report, events>>

----------------------------------------------------------------------------
(* The session *)

Next ==
    \/ Signal
    \/ ExecArgs
    \/ GovernorStart
    \/ GovernorSchedule
    \/ GovernorSleep
    \/ ExecSetup
    \/ ReferenceDiscovery
    \/ AdvertiseTest
    \/ AdvertiseSet
    \/ AdvertiseWrite
    \/ DiscoveryDone
    \/ ReadCommandError
    \/ ReadShallow
    \/ ReadCommand
    \/ ReadCommandsFlush
    \/ DumpPushOptions
    \/ PrepareQuarantine
    \/ ReadPack
    \/ IndexPackStderr
    \/ MuxWrite
    \/ MuxEnd
    \/ WaitIndexPack
    \/ CheckConnectivity
    \/ Report
    \/ Finish

Spec == Init /\ [][Next]_vars

\* the same process under every governor
SpecGov == InitGov /\ [][Next]_vars

\* the same process on every reference store
SpecAdv == InitAdv /\ [][Next]_vars

\* the same process under a signal
SpecSig == InitSig /\ [][Next]_vars

----------------------------------------------------------------------------
(* The packet functions and isHiddenRef, called on their own *)

\* the sizes a length header announces
HeaderValues == {0, 1, 2, 3, 4, 5, 7, 65519, 65520, 65524, 65525, 65535}

\* what a reader is given to read: a packet of each size with all its
\* bytes, none of them NUL; packets of three bytes with NUL bytes; a packet
\* cut short; packets that other bytes of the input follow; a header that
\* is not a hex number; a header cut short; the end of the input
WireInputs ==
    { [header |-> Hex4(n),
       body |-> Bytes(IF n > HeaderSize THEN n - HeaderSize ELSE 0, {})] :
        n \in HeaderValues }
    \cup { [header |-> Hex4(7), body |-> Bytes(3, nuls)] :
             nuls \in { {1}, {2}, {3}, {1, 3} } }
    \cup { [header |-> Hex4(7), body |-> Bytes(2, {})],
           [header |-> Hex4(0), body |-> Bytes(2, {})],
           [header |-> Hex4(2), body |-> Bytes(5, {})],
           [header |-> Hex4(7), body |-> Bytes(5, {})],
           [header |-> Hex4(65525), body |-> Bytes(5, {})],
           [header |-> <<NotHex, 0, 0, 0>>, body |-> Empty],
           [header |-> <<0, 0>>, body |-> Empty],
           EOFInput }

\* the payloads handed to the writer
Payloads ==
    { Empty, Bytes(1, {}), Bytes(3, {}), Bytes(3, {2}),
      Bytes(maxPacketDataLength, {}),
      Bytes(maxPacketDataLength, {maxPacketDataLength}),
      Bytes(maxPacketDataLength + 1, {}) }

\* the rules of the lists given to isHiddenRef, and the refnames
FnRules ==
    { <<"r", "/", "h">>, <<"!", "r", "/", "h">>, <<"r", "/", "h", "/", "u">>,
      <<"!", "r", "/", "h", "/", "u">>, <<"!">>, <<>>, <<"!", "!", "r">> }

RECURSIVE SeqsUpTo(_, _)
SeqsUpTo(S, n) ==
    IF n = 0 THEN { <<>> }
    ELSE LET shorter == SeqsUpTo(S, n - 1)
         IN  shorter \cup { Append(q, x) : q \in shorter, x \in S }

FnRefs == { RefHeads, RefHidden, <<"r", "/", "h">>, <<"!", "r">> }

\* a reader reads the next packet of an input
ReadPacket ==
    /\ call = NoCall /\ sent = NoSent
    /\ Len(stream) < MaxReads
    /\ \E in \in WireInputs :
         /\ pl' = Read(pl, in)
         /\ stream' = Append(stream, in)
         /\ rest' = Len(in.header) + in.body.len - consumed(in)
    /\ wrote' = NoPacket
    /\ UNCHANGED <<pc, sessionEnv, signalVars, handshakeVars, packVars,
                   clientOut, revListInput, discoveryVars, pushVars, govConn,
                   govSent, finishCode, quarantine, events, exitCode, errMsg, call, sent>>

\* a payload is written as a packet and the reader reads what was written
WriteAndRead ==
    /\ call = NoCall /\ sent = NoSent
    /\ Len(stream) < MaxReads
    /\ \E p \in Payloads, via \in {"writePacketLine", "writePacketf"} :
         LET w == IF via = "writePacketf" THEN writePacketf(p)
                  ELSE writePacketLine(p)
             in == IF w.out = <<>> THEN EOFInput ELSE w.out[1]
         IN  /\ pl' = Read(pl, in)
             /\ stream' = Append(stream, in)
             /\ rest' = Len(in.header) + in.body.len - consumed(in)
             /\ wrote' = [via |-> via, payload |-> p, err |-> w.err]
    /\ UNCHANGED <<pc, sessionEnv, signalVars, handshakeVars, packVars,
                   clientOut, revListInput, discoveryVars, pushVars, govConn,
                   govSent, finishCode, quarantine, events, exitCode, errMsg, call, sent>>

\* isHiddenRef is called on a refname and the rules of the configuration
CallIsHiddenRef ==
    /\ call = NoCall /\ stream = <<>> /\ sent = NoSent
    /\ \E ref \in FnRefs, receive \in SeqsUpTo(FnRules, MaxRules),
          transfer \in SeqsUpTo(FnRules, MaxRules) :
         /\ Len(receive) + Len(transfer) <= MaxRules
         /\ call' = [ref |-> ref, receive |-> receive, transfer |-> transfer,
                     hidden |-> isHiddenRef(ref, getHiddenRefs(receive,
                                                               transfer))]
    /\ UNCHANGED <<pc, sessionEnv, signalVars, handshakeVars, packVars,
                   clientOut, revListInput, discoveryVars, pushVars, govConn,
                   govSent, finishCode, quarantine, events, exitCode, errMsg, pl, stream,
                   rest, wrote, sent>>

\* the capabilities of a client that uses a side band
SideBandCaps == { {SideBand}, {SideBand64k}, {SideBand, SideBand64k} }

\* the lengths of the reports writeReport writes: the shortest, and those
\* around one and two chunks of the side band
ReportLengths(packetMax) ==
    {18, packetMax - 5, packetMax - 4, 2 * (packetMax - 5),
     2 * (packetMax - 5) + 1}

\* what one read of index-pack's stderr can return into a buffer of
\* bufferSize bytes
ReadSizes(bufferSize) ==
    {n \in {1, 998, 999, 65514, 65515, 65516, 65519} : n <= bufferSize}

\* report sends a report on a side band
SendReport ==
    /\ call = NoCall /\ stream = <<>> /\ sent = NoSent
    /\ \E caps \in SideBandCaps :
         \E len \in ReportLengths(sideBandBufSize(caps)) :
            LET r == reportSideBand(len, caps)
            IN  sent' = [op |-> "report", caps |-> caps, len |-> len,
                         err |-> r.err, out |-> r.out]
    /\ UNCHANGED <<pc, sessionEnv, signalVars, handshakeVars, packVars,
                   clientOut, revListInput, discoveryVars, pushVars, govConn,
                   govSent, finishCode, quarantine, events, exitCode, errMsg,
                   pl, stream, rest, wrote, call>>

\* the multiplexer writes what one read of index-pack's stderr returned
MuxPacket ==
    /\ call = NoCall /\ stream = <<>> /\ sent = NoSent
    /\ \E caps \in SideBandCaps :
         \E n \in ReadSizes(sideBandBufSize(caps)) :
            LET m == muxPacket(n)
            IN  sent' = [op |-> "mux", caps |-> caps, len |-> n,
                         err |-> m.err, out |-> m.out]
    /\ UNCHANGED <<pc, sessionEnv, signalVars, handshakeVars, packVars,
                   clientOut, revListInput, discoveryVars, pushVars, govConn,
                   govSent, finishCode, quarantine, events, exitCode, errMsg,
                   pl, stream, rest, wrote, call>>

\* no session: the functions are called on their own, the reader on a
\* stream of packets, isHiddenRef on a configuration, or a writer of
\* side-band packets on a report or on a chunk of index-pack's stderr
InitFn ==
    /\ InitSession
    /\ signals = FALSE
    /\ governorEnv = GovAbsent
    /\ refStore = SimpleStore
    /\ advertiseRefs = FALSE
    /\ statelessRPC = FALSE
    /\ hiddenRefs = <<>>

NextFn ==
    \/ ReadPacket
    \/ WriteAndRead
    \/ CallIsHiddenRef
    \/ SendReport
    \/ MuxPacket

SpecFn == InitFn /\ [][NextFn]_vars

----------------------------------------------------------------------------
(* The handshake with a governor that says wait any number of times *)

\* what the round after the last wait can meet
LastReplies ==
    {"continue", "fail", "other", "error", "timeout", "write", "deadline"}

\* the governors that are reached and send up to MaxWaits replies of wait,
\* then a last reply
WaitingGovernors ==
    { Gov(TRUE, TRUE, Append(waits, last), failClosed) :
        waits \in SeqsUpTo(WaitReplies, MaxWaits), last \in LastReplies,
        failClosed \in {"", "1"} }

InitHandshake ==
    /\ InitSession
    /\ signals = FALSE
    /\ governorEnv \in WaitingGovernors
    /\ refStore = SimpleStore
    /\ advertiseRefs = FALSE
    /\ statelessRPC = FALSE
    /\ hiddenRefs = <<>>

\* Exec, up to the return of governor.Start
NextHandshake ==
    \/ ExecArgs
    \/ GovernorStart
    \/ GovernorSchedule
    \/ GovernorSleep

\* schedule returns, with the reply or when the read deadline has passed,
\* and time.Sleep returns: a round that can be taken is taken
SpecHandshake ==
    /\ InitHandshake
    /\ [][NextHandshake]_vars
    /\ WF_vars(GovernorStart)
    /\ WF_vars(GovernorSchedule)
    /\ WF_vars(GovernorSleep)

----------------------------------------------------------------------------
(* Shared vocabulary of the properties *)

Exited == pc = "exited"

\* the report reached the client with all its lines
ReportWritten == report.state \in {"complete", "noflush"}

\* the write of the report failed, and the session failed with that error
ReportWriteFailed == report.state = "partial" /\ errMsg = "writing report"

SuccessStatuses == {"ok", "ff", "nf"}

\* the client declared report-status or report-status-v2
AskedForReport ==
    ReportStatus \in capabilities \/ ReportStatusV2 \in capabilities

\* some command that was read is not a delete
SomeNonDelete ==
    \E i \in 1..Len(commands) : commands[i].newOID # nullSHA1OID

\* the quarantine directory was created and readPack has returned
ReadPackReturned ==
    quarantine # "absent" /\ pc \notin {"readpack", "indexpack"}

\* the position of an event in the order of the protocol
EventRank(ev) ==
    CASE ev = "adv_begin"    -> 1
      [] ev = "adv_flush"    -> 2
      [] ev = "cmd_read"     -> 3
      [] ev = "cmd_flush"    -> 4
      [] ev = "opt_read"     -> 5
      [] ev = "opt_flush"    -> 6
      [] ev = "pack_start"   -> 7
      [] ev = "report_begin" -> 8
      [] ev = "report_end"   -> 9

\* the phase a position of the process belongs to
PhaseRank(p) ==
    CASE p = "exec"         -> 0
      [] p = "start"        -> 0
      [] p = "schedule"     -> 0
      [] p = "sleeping"     -> 0
      [] p = "setup"        -> 0
      [] p = "discovery"    -> 1
      [] p = "advertising"  -> 1
      [] p = "commands"     -> 2
      [] p = "options"      -> 3
      [] p = "prepare"      -> 4
      [] p = "readpack"     -> 4
      [] p = "indexpack"    -> 4
      [] p = "connectivity" -> 4
      [] p = "report"       -> 5
      [] p = "finish"       -> 6
      [] p = "exited"       -> 7

----------------------------------------------------------------------------
(* C1 *)

\* C1: the phases advertise, read commands, drain push-options, read pack,
\* report occur in that order, each at most once and with no way back: the
\* events of a session are logged in strictly increasing protocol order, the
\* position of the process never moves to an earlier phase, a command packet
\* is read only after the advertisement's flush (when the session
\* advertises), and index-pack is started only after the flush of the
\* command block and, when push-options was declared, the flush of the
\* push-options block.
C1_PhaseOrder ==
    /\ \A i, j \in 1..Len(events) :
         i < j => EventRank(events[i]) < EventRank(events[j])
    /\ PhaseRank(pc) >= (IF events = <<>> THEN 0
                         ELSE (EventRank(events[Len(events)]) + 1) \div 2)
    /\ (Logged(events, "cmd_read") /\ (advertiseRefs \/ ~statelessRPC))
         => Logged(events, "adv_flush")
    /\ Logged(events, "pack_start")
         => /\ Logged(events, "cmd_flush")
            /\ IsDefined(capabilities, PushOptions)
                 => Logged(events, "opt_flush")
    /\ Logged(events, "report_begin")
         => /\ Logged(events, "cmd_flush")
            /\ IsDefined(capabilities, PushOptions)
                 => Logged(events, "opt_flush")

\* a session that went through all five phases
C1_Witness ==
    /\ Exited
    /\ events = <<"adv_begin", "adv_flush", "cmd_read", "cmd_flush",
                  "opt_read", "opt_flush", "pack_start", "report_begin",
                  "report_end">>

----------------------------------------------------------------------------
(* C2 *)

HiddenReason == "deny updating a hidden ref"

\* C2: a command whose refname is hidden is rejected when it is read, with
\* ng and the reason "deny updating a hidden ref"; it is never given a
\* success status and never reported with one; and the commands of the same
\* push whose refname is not hidden are not rejected with it.
C2_HiddenRejected ==
    \A i \in 1..Len(commands) :
      LET c == commands[i]
      IN  IF isHiddenRef(c.refname, hiddenRefs)
          THEN /\ c.reportFF = "ng"
               /\ c.err # ""
               /\ pc \in {"commands", "options", "prepare"}
                    => c.err = HiddenReason
               /\ ReportWritten => report.lines[i][1] = "ng"
          ELSE /\ pc \in {"commands", "options", "prepare"} => c.err = ""
               /\ c.err # HiddenReason

\* a report that rejects the hidden ref and accepts another command
C2_Witness ==
    /\ ReportWritten
    /\ \E i, j \in 1..Len(commands) :
         /\ isHiddenRef(commands[i].refname, hiddenRefs)
         /\ report.lines[i] = <<"ng", commands[i].refname, HiddenReason>>
         /\ report.lines[j] = <<"ok", commands[j].refname>>

----------------------------------------------------------------------------
(* C3 *)

PackReason == "error processing packfiles"

\* the report of a failed unpack: its first line and one line per command
FailedUnpackReport ==
    /\ report.unpack = "unpack index-pack failed"
    /\ Len(report.lines) = Len(commands)
    /\ \A i \in 1..Len(commands) :
         report.lines[i] = <<"ng", commands[i].refname, PackReason>>

\* C3 as stated: if index-pack fails every command is marked ng with
\* "error processing packfiles", and when the client asked for a report the
\* report is written before the process exits with a non-zero code.
C3_Original ==
    (Exited /\ unpackErr = "wait")
      => /\ \A i \in 1..Len(commands) :
              commands[i].err = PackReason /\ commands[i].reportFF = "ng"
         /\ exitCode # 0
         /\ AskedForReport => (ReportWritten /\ FailedUnpackReport)

\* C3, amended: if index-pack fails every command of the push, the commands
\* rejected before the unpack included, is marked ng with "error processing
\* packfiles" and the process exits with a non-zero code; when the client
\* asked for a report, the report "unpack index-pack failed" with a line for
\* every command is written before the exit, unless the write of the report
\* to the client itself fails.
C3_UnpackFailureReported ==
    /\ unpackErr # ""
         => \A i \in 1..Len(commands) :
              commands[i].err = PackReason /\ commands[i].reportFF = "ng"
    /\ (Exited /\ unpackErr # "")
         => /\ exitCode # 0
            /\ AskedForReport
                 => \/ ReportWritten /\ FailedUnpackReport
                    \/ ReportWriteFailed

\* index-pack failed on a push with a command that was already rejected,
\* and the report was written before the exit
C3_Witness ==
    /\ Exited /\ exitCode = 1
    /\ unpackErr = "wait"
    /\ ReportWritten /\ FailedUnpackReport
    /\ \E i \in 1..Len(commands) :
         isHiddenRef(commands[i].refname, hiddenRefs)

----------------------------------------------------------------------------
(* C4 *)

\* C4: when the process exits with a non-zero code the quarantine directory
\* does not exist any more, whatever the path of the failure.
C4_QuarantineRemoved ==
    (Exited /\ exitCode # 0) => quarantine # "present"

\* a failure after the directory was created, with the directory removed
C4_Witness ==
    Exited /\ exitCode = 1 /\ quarantine = "removed"

----------------------------------------------------------------------------
(* C5 *)

MissingReason == "missing necessary objects"

\* a command that was rejected before the connectivity checks
PreRejected(c) ==
    c.err \in {HiddenReason, "push options count exceeds maximum"}

\* C5: when index-pack succeeded and the collective connectivity check
\* failed, a command that was not rejected before is ng "missing necessary
\* objects" if it is not a delete and its individual check fails, and has a
\* success status otherwise; the report says so line by line and its first
\* line is "unpack ok".
C5_MissingObjects ==
    (pc \in {"report", "finish", "exited"} /\ unpackErr = "" /\ collectiveErr)
      => /\ \A i \in 1..Len(commands) :
              LET c == commands[i]
              IN  ~PreRejected(c) =>
                    IF ~isDelete(c) /\ c.newOID \in missing
                    THEN /\ c.err = MissingReason /\ c.reportFF = "ng"
                         /\ ReportWritten =>
                              report.lines[i] =
                                <<"ng", c.refname, MissingReason>>
                    ELSE /\ c.err = "" /\ c.reportFF \in SuccessStatuses
                         /\ ReportWritten =>
                              report.lines[i] = <<c.reportFF, c.refname>>
         /\ ReportWritten => report.unpack = "unpack ok"

\* the report of a push with one command that misses objects, one whose
\* individual check passes and nothing else
C5_Witness ==
    /\ ReportWritten /\ collectiveErr /\ unpackErr = ""
    /\ \E i, j \in 1..Len(commands) :
         /\ report.lines[i] = <<"ng", commands[i].refname, MissingReason>>
         /\ ~isDelete(commands[j]) /\ commands[j].newOID \notin missing
         /\ report.lines[j] = <<"ok", commands[j].refname>>

----------------------------------------------------------------------------
(* C6 *)

\* C6 as stated: whenever the client declared report-status or
\* report-status-v2 (and sent its command block up to the flush), a report
\* is written before the process exits.
C6_Original ==
    (Exited /\ AskedForReport /\ Logged(events, "cmd_flush")) => ReportWritten

\* C6, amended: whenever the client declared report-status or
\* report-status-v2 and the session got as far as creating the quarantine
\* directory (the command block was read to its flush within the command
\* limit, the push-options block was drained and the limits were parsed), a
\* report is written before the process exits, whether the push succeeded
\* or not, unless the write of the report to the client itself fails.
C6_ReportWhenAsked ==
    (Exited /\ AskedForReport /\ quarantine # "absent")
      => (ReportWritten \/ ReportWriteFailed)

\* a push that failed after a successful unpack, with its report written
C6_Witness ==
    /\ Exited /\ exitCode = 1 /\ unpackErr = ""
    /\ ReportStatusV2 \in capabilities
    /\ report.state = "complete" /\ report.unpack = "unpack ok"

----------------------------------------------------------------------------
(* C7 *)

\* C7: the process exits with code 0 only if unpack succeeded and no command
\* ended with an ng status.
C7_ExitCodeReflectsStatuses ==
    (Exited /\ exitCode = 0)
      => /\ unpackErr = ""
         /\ \A i \in 1..Len(commands) : commands[i].reportFF # "ng"

----------------------------------------------------------------------------
(* C8 *)

LimitReason == "maximum ref updates exceeded"

\* C8: when receive.refupdatecommandlimit is a positive N and the command
\* block holds more than N commands, the session has failed with "maximum
\* ref updates exceeded" and exit code 1, index-pack was not started and no
\* report was written; and a session fails with that error only then.
C8_CommandLimit ==
    /\ (updateCommandLimit > 0 /\ Len(commands) > updateCommandLimit)
         => /\ Exited /\ exitCode = 1 /\ errMsg = LimitReason
            /\ ~indexPackStarted /\ ~Logged(events, "pack_start")
            /\ report = NoReport
            /\ quarantine = "absent"
    /\ errMsg = LimitReason
         => (updateCommandLimit > 0 /\ Len(commands) > updateCommandLimit)

\* a push of two commands against a limit of one, by a client that asked
\* for a report
C8_Witness ==
    /\ Exited /\ errMsg = LimitReason
    /\ updateCommandLimit = 1 /\ Len(commands) = 2
    /\ AskedForReport

----------------------------------------------------------------------------
(* C9 *)

OptionsReason == "push options count exceeds maximum"

\* the client sent more option packets than a positive limit allows
OptionsExceeded ==
    optionsCountLimit > 0 /\ pushOptionsCount > optionsCountLimit

AllRejectedWith(reason) ==
    \A i \in 1..Len(commands) :
        commands[i].err = reason /\ commands[i].reportFF = "ng"

\* C9 as stated: when the push options exceed the limit every command is
\* reported ng "push options count exceeds maximum", the pack is still read,
\* and when index-pack succeeds the first line of the report is "unpack ok"
\* (for every session that got as far as running index-pack, or had no pack
\* to read).
C9_Original ==
    (Exited /\ OptionsExceeded /\ quarantine # "absent"
            /\ unpackErr \in {"", "wait"})
      => /\ AllRejectedWith(OptionsReason)
         /\ SomeNonDelete => indexPackStarted
         /\ (unpackErr = "" /\ ReportWritten) => report.unpack = "unpack ok"

\* C9, amended: when the push options exceed a positive limit, every command
\* is marked ng "push options count exceeds maximum" before pack intake;
\* once the quarantine directory is created pack intake still runs, and
\* index-pack is started if and only if a command is not a delete, unless
\* pack intake fails; when pack intake succeeds every command keeps that
\* status and is reported with it under the first line "unpack ok"; when
\* pack intake fails the status of every command becomes "error processing
\* packfiles".
C9_OptionsLimit ==
    OptionsExceeded
      => /\ pc = "readpack" => AllRejectedWith(OptionsReason)
         /\ (ReadPackReturned /\ unpackErr = "")
              => /\ AllRejectedWith(OptionsReason)
                 /\ indexPackStarted <=> SomeNonDelete
                 /\ ReportWritten
                      => /\ report.unpack = "unpack ok"
                         /\ \A i \in 1..Len(commands) :
                              report.lines[i] =
                                <<"ng", commands[i].refname, OptionsReason>>
         /\ (ReadPackReturned /\ unpackErr # "")
              => AllRejectedWith(PackReason)

\* two option packets against a limit of one: the pack was read and the
\* report rejects every command under "unpack ok"
C9_Witness ==
    /\ OptionsExceeded /\ indexPackStarted
    /\ report.state = "complete" /\ report.unpack = "unpack ok"
    /\ Len(commands) = 2
    /\ \A i \in 1..Len(commands) :
         report.lines[i] = <<"ng", commands[i].refname, OptionsReason>>

----------------------------------------------------------------------------
(* C10 *)

\* C10 as stated: index-pack is started if and only if at least one received
\* command is not a delete (for every session that got as far as pack
\* intake).
C10_Original ==
    (Exited /\ quarantine # "absent")
      => (indexPackStarted <=> SomeNonDelete)

\* C10, amended: index-pack is started, and pack bytes are consumed, only if
\* at least one received command is not a delete; a session that reaches
\* pack intake with a command that is not a delete starts it unless
\* receive.maxsize or receive.warnobjectsize cannot be parsed or the child
\* cannot be spawned; for a push in which every command is a delete pack
\* intake is skipped without an error and nothing is read from the input
\* after the flush of the command (and push-options) block.
C10_PackOnlyForNonDeletes ==
    /\ indexPackStarted => SomeNonDelete
    /\ indexPackStarted <=> Logged(events, "pack_start")
    /\ (ReadPackReturned /\ SomeNonDelete /\ unpackErr \in {"", "wait"})
         => indexPackStarted
    /\ (ReadPackReturned /\ ~SomeNonDelete)
         => /\ ~indexPackStarted /\ unpackErr = ""
            /\ Len(events) > 0
            /\ events[Len(events)] \in
                 {"cmd_flush", "opt_flush", "report_begin", "report_end"}

\* a push of deletes only, reported ok without index-pack
C10_Witness ==
    /\ Exited /\ exitCode = 0
    /\ Len(commands) = 2 /\ ~SomeNonDelete /\ ~indexPackStarted
    /\ report.state = "complete"
    /\ \A i \in 1..Len(commands) :
         report.lines[i] = <<"ok", commands[i].refname>>

----------------------------------------------------------------------------
(* C11 *)

\* C11 as stated: the quarantine directory is created only if at least one
\* received command is not a delete, and a successful push with a command
\* that is not a delete leaves it in place.
C11_Original ==
    /\ quarantine # "absent" => SomeNonDelete
    /\ (Exited /\ exitCode = 0 /\ SomeNonDelete) => quarantine = "present"

\* C11, amended: the quarantine directory is created if and only if the
\* session reaches pack intake, which it does with at least one command,
\* deletes or not, once the command block and the push-options block are
\* read and the limits parsed; it is never created for an advertisement or
\* for an empty command block; every push that exits with code 0 after
\* receiving a command, a push of deletes only included, leaves it in place.
C11_QuarantineCreation ==
    /\ quarantine # "absent"
         => /\ Len(commands) > 0
            /\ ~advertiseRefs
            /\ Logged(events, "cmd_flush")
            /\ pc \in {"readpack", "indexpack", "connectivity", "report",
                       "finish", "exited"}
    /\ pc \in {"readpack", "indexpack", "connectivity", "report", "finish"}
         => quarantine = "present"
    /\ (Exited /\ exitCode = 0 /\ Len(commands) > 0)
         => quarantine = "present"
    /\ (Exited /\ Len(commands) = 0) => quarantine = "absent"

\* a successful push of deletes only: the directory was created and is left
C11_Witness ==
    /\ Exited /\ exitCode = 0
    /\ Len(commands) > 0 /\ ~SomeNonDelete
    /\ quarantine = "present"

----------------------------------------------------------------------------
(* C12 *)

\* C12: a report that is written holds exactly one status line for each
\* command packet received, and its i-th line is the line of the i-th
\* command received.
C12_ReportOrder ==
    ReportWritten
      => /\ Len(report.lines) = Len(received)
         /\ \A i \in 1..Len(received) :
              /\ report.lines[i][2] = received[i]
              /\ report.lines[i][1] \in SuccessStatuses \cup {"ng"}

\* a report of two commands on two different refs
C12_Witness ==
    /\ report.state = "complete"
    /\ Len(received) = 2 /\ received[1] # received[2]
    /\ report.lines[1][2] = received[1]
    /\ report.lines[2][2] = received[2]

----------------------------------------------------------------------------
(* C13 *)

\* the reference discovery has written its flush
AdvertisementComplete == Logged(events, "adv_flush")

\* the positions of the packets that carry the capability segment
CapabilityPackets ==
    {i \in 1..Len(advertisement) : advertisement[i].caps}

\* C13: a completed advertisement holds exactly one packet with the
\* capability segment, and that packet is its first: the first line
\* advertised, or the capabilities^{} packet when no line was advertised.
C13_OneCapabilityPacket ==
    AdvertisementComplete
      => /\ CapabilityPackets = {1}
         /\ \A i \in 1..Len(advertisement) :
              advertisement[i].line = LonelyLine
                => Len(advertisement) = 1

----------------------------------------------------------------------------
(* C14 *)

\* C14: with --advertise-refs the session writes the advertisement and
\* nothing else: no packet of the command stream is read, no quarantine
\* directory is created, no report is written; and once the advertisement is
\* complete the process exits with code 0, which it does in no other way.
C14_AdvertiseOnly ==
    advertiseRefs
      => /\ \A i \in 1..Len(events) : events[i] \in {"adv_begin", "adv_flush"}
         /\ pc \in {"exec", "start", "schedule", "sleeping", "setup",
                    "discovery", "advertising", "exited"}
         /\ commands = <<>> /\ received = <<>>
         /\ pushOptionsCount = 0
         /\ quarantine = "absent"
         /\ ~indexPackStarted
         /\ report = NoReport
         /\ AdvertisementComplete => (Exited /\ exitCode = 0 /\ errMsg = "")
         /\ (Exited /\ exitCode = 0) => AdvertisementComplete

\* the advertisement of a stateless-rpc session, written and complete
C14_Witness ==
    /\ advertiseRefs /\ statelessRPC
    /\ Exited /\ exitCode = 0
    /\ events = <<"adv_begin", "adv_flush">>
    /\ Len(advertisement) = 1 /\ advertisement[1].caps

----------------------------------------------------------------------------
(* C15 *)

\* the client sent the flush of the command block without any command
EmptyCommandBlock == Logged(events, "cmd_flush") /\ Len(received) = 0

\* C15 as stated: on an empty command block the session exits with code 0,
\* without the quarantine directory, without reading on and without a
\* report.
C15_Original ==
    EmptyCommandBlock
      => /\ Exited /\ exitCode = 0
         /\ quarantine = "absent"
         /\ report = NoReport
         /\ events[Len(events)] = "cmd_flush"

\* C15, amended: on an empty command block the session ends at the flush,
\* without the quarantine directory, without reading any further input and
\* without a report; it exits with code 0 unless
\* receive.refupdatecommandlimit cannot be parsed, and with code 1 then.
C15_EmptyCommandBlock ==
    EmptyCommandBlock
      => /\ Exited
         /\ quarantine = "absent"
         /\ report = NoReport
         /\ ~indexPackStarted
         /\ pushOptionsCount = 0
         /\ events[Len(events)] = "cmd_flush"
         /\ \/ exitCode = 0 /\ errMsg = ""
            \/ exitCode = 1 /\ errMsg = "parsing refupdatecommandlimit"

\* the flush alone, after the advertisement, and the exit with code 0
C15_Witness ==
    /\ EmptyCommandBlock
    /\ Exited /\ exitCode = 0
    /\ events = <<"adv_begin", "adv_flush", "cmd_read", "cmd_flush">>

----------------------------------------------------------------------------
(* Shared vocabulary of the governor properties *)

\* what the schedule loop meets in the round that is not answered by wait
RECURSIVE FinalRound(_, _)
FinalRound(replies, i) ==
    IF replies[i] \in WaitReplies THEN FinalRound(replies, i + 1)
    ELSE replies[i]

\* the governor was reached and the update request written
Reached == governorEnv.connect /\ governorEnv.update

\* governor.Start has returned
HandshakeDone ==
    pc \notin {"exec", "start", "schedule", "sleeping"} /\ errMsg # "arguments"

\* nothing of the push has run
NothingRan ==
    /\ events = <<>>
    /\ advertisement = <<>>
    /\ commands = <<>> /\ received = <<>>
    /\ pushOptionsCount = 0
    /\ quarantine = "absent"
    /\ ~indexPackStarted
    /\ report = NoReport

----------------------------------------------------------------------------
(* C16 *)

\* C16: when the governor answers a schedule request with fail, the process
\* exits with code 75, the handle is nil and no finish is sent, and nothing
\* of the push runs: no advertisement, no command or pack read, no
\* quarantine directory; and the process exits with FailError only then.
C16_GovernorFail ==
    /\ (HandshakeDone /\ Reached
            /\ FinalRound(governorEnv.replies, 1) = "fail")
         => /\ Exited /\ exitCode = 75 /\ errMsg = "FailError"
            /\ govConn = "nil" /\ ~Logged(govSent, "finish")
            /\ NothingRan
    /\ errMsg = "FailError"
         => /\ Reached
            /\ FinalRound(governorEnv.replies, 1) = "fail"

\* a governor that says wait, then fail
C16_Witness ==
    /\ Exited /\ exitCode = 75
    /\ govSent = <<"update", "schedule", "schedule">>
    /\ governorEnv.replies = <<"wait", "fail">>

----------------------------------------------------------------------------
(* C17 *)

\* C17: when the governor is reached and answers the first schedule request
\* with continue, the process writes one update, then one schedule, to the
\* governor and nothing else while it runs, and one finish when it exits.
C17_GovernorMessages ==
    (HandshakeDone /\ Reached /\ governorEnv.replies[1] = "continue")
      => /\ govSent = IF Exited THEN <<"update", "schedule", "finish">>
                      ELSE <<"update", "schedule">>
         /\ govConn = IF Exited THEN "closed" ELSE "open"

\* a push that succeeded under a governor that said continue
C17_Witness ==
    /\ Exited /\ exitCode = 0
    /\ report.state = "complete"
    /\ govSent = <<"update", "schedule", "finish">>

----------------------------------------------------------------------------
(* C18 *)

\* C18: finish is sent to the governor once, as the last message, when the
\* process exits: pack intake has ended and the report, if one is written,
\* has been written to its last byte.
C18_FinishLast ==
    /\ Logged(govSent, "finish")
         => /\ Exited
            /\ report.state # "none" => Logged(events, "report_begin")
            /\ \A i \in 1..Len(govSent) :
                 govSent[i] = "finish" <=> i = Len(govSent)
    /\ pc \in {"schedule", "sleeping", "setup", "discovery", "advertising",
               "commands", "options", "prepare", "readpack", "indexpack",
               "connectivity", "report", "finish"}
         => ~Logged(govSent, "finish")

\* finish after index-pack has run and the report was written
C18_Witness ==
    /\ Logged(govSent, "finish")
    /\ indexPackStarted
    /\ events[Len(events)] = "report_end"

----------------------------------------------------------------------------
(* C19 *)

\* the handshake ends on a failed connection, a failed write of update, a
\* reply that cannot be read for another reason than a timeout, or a reply
\* that is none of continue, wait, fail
Downgraded ==
    \/ ~governorEnv.connect
    \/ ~governorEnv.update
    \/ FinalRound(governorEnv.replies, 1) \in {"error", "other"}

\* C19: in each of these cases, whatever FAIL_CLOSED is, Start returns a nil
\* handle and no error: the process does not exit with code 75, the push
\* goes on from where a push without a governor goes on, nothing is written
\* to the governor any more and no finish is sent.
C19_NullHandle ==
    (HandshakeDone /\ Downgraded)
      => /\ govConn = "nil"
         /\ exitCode # 75
         /\ errMsg \notin {"FailError", "net.Error", "net.Error timeout",
                           "unexpected response"}
         /\ ~Logged(govSent, "finish")
         /\ Len(govSent) <= Len(governorEnv.replies) + 1
         /\ pc = "setup" => (NothingRan /\ exitCode = -1 /\ errMsg = "")

\* a push that succeeded after a reply the process does not know
C19_Witness ==
    /\ governorEnv = GovGarbled
    /\ Exited /\ exitCode = 0
    /\ indexPackStarted /\ report.state = "complete"

----------------------------------------------------------------------------
(* C20 *)

----------------------------------------------------------------------------
(* C21 *)

\* the replies of wait at the head of the replies, from round i on
RECURSIVE LeadingWaits(_, _)
LeadingWaits(replies, i) ==
    IF i <= Len(replies) /\ replies[i] \in WaitReplies
    THEN 1 + LeadingWaits(replies, i + 1)
    ELSE 0

\* the schedule requests written to the governor
ScheduleCount == Len(SelectSeq(govSent, LAMBDA m : m = "schedule"))

\* the seconds a reply of wait announces, one where it announces none
Announced(reply) == IF reply = "wait 2" THEN 2 ELSE 1

\* the schedule loop is in progress, or has ended
InLoop == pc \in {"schedule", "sleeping"}
LoopEnded == govRound >= 1 /\ ~InLoop

\* the loop ended on a round in which the read deadline could not be set or
\* the request could not be written
RoundCutShort == FinalRound(governorEnv.replies, 1) \in {"deadline", "write"}

----------------------------------------------------------------------------
(* C22 *)

\* C22: when the governor handle is not nil and index-pack ran and
\* succeeded on the pack of the push, the finish message of the process
\* carries a receive_pack_size above 0, however the task that collects
\* index-pack's output fares against the exit of the child and against the
\* wait of one second.
C22_PackSizeReported ==
    (Exited /\ Logged(govSent, "finish") /\ indexPackStarted /\ unpackErr = "")
      => receivePackSize > 0

----------------------------------------------------------------------------
(* C23 *)

\* C23: a signal that arrives while the schedule loop is in progress aborts
\* the loop: after a signal during the sleep no schedule request is written
\* any more, and after a signal in the loop nothing of the push runs.
C23_SignalAbortsHandshake ==
    /\ (cancelled /\ atSignal.pc = "sleeping")
         => Len(SelectSeq(govSent, LAMBDA m : m # "finish")) = atSignal.sent
    /\ (cancelled /\ atSignal.pc \in {"schedule", "sleeping"})
         => /\ NothingRan
            /\ pc \in {"schedule", "sleeping", "exited"}

----------------------------------------------------------------------------
(* C24 *)

\* C24: when a signal arrived after the quarantine directory was created,
\* the directory has been removed when the process exits.
C24_QuarantineRemovedOnCancel ==
    (Exited /\ cancelled /\ atSignal.quarantine = "present")
      => quarantine = "removed"

----------------------------------------------------------------------------
(* C29 *)

\* C29: no side-band packet of index-pack's stderr is written to the client
\* after the report has begun, and the multiplexer has ended when index-pack
\* has been waited for: from the connectivity checks on, and whenever a
\* report has begun, it is not running.
C29_NoProgressAfterReport ==
    /\ \A i, j \in 1..Len(clientOut) :
         (i < j /\ clientOut[i] = "report") => clientOut[j] # "band2"
    /\ pc \in {"connectivity", "report", "finish", "exited"}
         => mux # "running"
    /\ Logged(clientOut, "report") => mux # "running"

\* a side-band packet of progress, then the report, on a side band
C29_Witness ==
    /\ clientOut = <<"band2", "report">>
    /\ useSideBand(capabilities)
    /\ mux = "done"
    /\ report.state = "complete"

----------------------------------------------------------------------------
(* C30 *)

\* C30: the lines written to the collective rev-list are the new OIDs of the
\* commands that are neither rejected nor deletes, in the order of the
\* commands, and nothing else.
C30_RevListInput ==
    [][pc = "connectivity"
         => LET checked == SelectSeq(commands,
                             LAMBDA c : c.err = "" /\ ~isDelete(c))
            IN  revListInput' = [i \in 1..Len(checked) |-> checked[i].newOID]
      ]_vars

----------------------------------------------------------------------------
(* C25 *)

\* the rule without its leading "!", and whether it has none
Stripped(rule) ==
    IF Len(rule) > 0 /\ rule[1] = "!" THEN SubSeq(rule, 2, Len(rule)) ELSE rule
IsHideRule(rule) == ~(Len(rule) > 0 /\ rule[1] = "!")

PrefixOf(p, ref) == Len(p) <= Len(ref) /\ \A i \in 1..Len(p) : p[i] = ref[i]

\* the k-th rule of the values of receive.hiderefs followed by those of
\* transfer.hiderefs
RuleAt(k) ==
    IF k <= Len(call.receive) THEN call.receive[k]
    ELSE call.transfer[k - Len(call.receive)]

\* the rules that match the refname of the call
MatchingRules ==
    {k \in 1..(Len(call.receive) + Len(call.transfer)) :
        PrefixOf(Stripped(RuleAt(k)), call.ref)}

\* C25: a refname is hidden if and only if some rule of the list, the
\* values of receive.hiderefs followed by those of transfer.hiderefs,
\* without its leading "!" is a prefix of the refname and the last such rule
\* is a hide rule.
C25_LastMatchWins ==
    call.hidden <=>
        /\ MatchingRules # {}
        /\ \E k \in MatchingRules :
             /\ \A m \in MatchingRules : m <= k
             /\ IsHideRule(RuleAt(k))

\* a refname under a hide rule of receive.hiderefs and, after it, an unhide
\* rule of transfer.hiderefs
C25_Witness ==
    /\ call.ref = <<"r", "/", "h", "/", "u">>
    /\ call.receive = << <<"r", "/", "h">> >>
    /\ call.transfer = << <<"!", "r", "/", "h", "/", "u">> >>
    /\ ~call.hidden

----------------------------------------------------------------------------
(* Shared vocabulary of the packet properties *)

\* the input of the last Read
LastInput == stream[Len(stream)]

\* a header of four hex digits, and the number it stands for
IsHex(h) == Len(h) = 4 /\ \A i \in 1..4 : h[i] \in 0..15
HeaderValue(h) == h[1] * 4096 + h[2] * 256 + h[3] * 16 + h[4]

\* the packet has a payload and all its bytes are there
HasPayload(in) ==
    /\ IsHex(in.header)
    /\ HeaderValue(in.header) \in 5..65524
    /\ in.body.len >= HeaderValue(in.header) - 4

\* the positions of the NUL bytes of the payload of a packet
PayloadNULs(in) ==
    {k \in in.body.nuls : k <= HeaderValue(in.header) - 4}

\* a Read before the last one met a NUL in a payload
SplitBefore ==
    \E k \in 1..(Len(stream) - 1) :
       HasPayload(stream[k]) /\ PayloadNULs(stream[k]) # {}

\* the payload of the packet, whole
WholePayload(in) ==
    [len |-> HeaderValue(in.header) - 4, nuls |-> PayloadNULs(in)]

\* the first NUL of the payload of the packet
FirstNUL(in) ==
    CHOOSE k \in PayloadNULs(in) : \A m \in PayloadNULs(in) : k <= m

----------------------------------------------------------------------------
(* C26 *)

\* C26 as stated: a length of 1, 2 or 3 and a length above 65,519 are
\* errors, and a length that is accepted is 0 or one of 4 to 65,519.
C26_Original ==
    (Len(stream) > 0 /\ IsHex(LastInput.header))
      => LET n == HeaderValue(LastInput.header)
         IN  /\ (n \in 1..3 \/ n > 65519) => pl.err # ""
             /\ pl.err = "" => (n = 0 \/ n \in 4..65519)

\* C26: the reader returns an error for a header that is not a hex number,
\* for a length above 65,524, and for a packet whose bytes end before the
\* length is reached; a length of 0 to 4 is a packet with no payload, 1, 2
\* and 3 included, and a length of 5 to 65,524 is a packet with the length
\* less four bytes.
C26_AcceptedLengths ==
    (Len(stream) > 0 /\ Len(LastInput.header) = 4)
      => IF ~IsHex(LastInput.header)
         THEN pl.err = "illformed pktline size"
         ELSE LET n == HeaderValue(LastInput.header)
              IN  IF n > 65524 THEN pl.err = "invalid pkt-line length"
                  ELSE IF n <= 4 THEN pl.err = "" /\ pl.Payload.len = 0
                  ELSE IF LastInput.body.len < n - 4
                       THEN pl.err = "reading pktline data"
                  ELSE /\ pl.err = ""
                       /\ pl.Payload.len = n - 4
                            \/ /\ PayloadNULs(LastInput) # {}
                               /\ pl.Payload.len = FirstNUL(LastInput) - 1

\* a header of 0002 was read as a packet with no payload, after a packet
\* of 65,524 bytes
C26_Witness ==
    /\ Len(stream) = 2
    /\ stream[1].header = <<15, 15, 15, 4>>
    /\ stream[2].header = <<0, 0, 0, 2>>
    /\ pl.err = "" /\ pl.Payload.len = 0

----------------------------------------------------------------------------
(* C27 *)

\* C27 as stated: the first packet a reader reads is split at its first
\* NUL, and every later packet is returned whole.
C27_Original ==
    (Len(stream) > 0 /\ HasPayload(LastInput))
      => IF Len(stream) = 1 /\ PayloadNULs(LastInput) # {}
         THEN pl.Payload.len = FirstNUL(LastInput) - 1
         ELSE pl.Payload = WholePayload(LastInput)

\* C27: the split is applied to the first packet with a NUL in its payload
\* that a reader reads, which need not be the first packet it reads: the
\* bytes after the first NUL become the capability segment and the payload
\* ends before the NUL; every other packet is returned whole, NUL bytes
\* included.
C27_CapabilitySplit ==
    (Len(stream) > 0 /\ HasPayload(LastInput))
      => /\ pl.err = ""
         /\ IF PayloadNULs(LastInput) # {} /\ ~SplitBefore
            THEN /\ pl.Payload = [len |-> FirstNUL(LastInput) - 1, nuls |-> {}]
                 /\ pl.CapabilitiesPayload =
                      [len  |-> WholePayload(LastInput).len
                                  - FirstNUL(LastInput),
                       nuls |-> {k - FirstNUL(LastInput) :
                                   k \in PayloadNULs(LastInput)
                                           \ {FirstNUL(LastInput)}}]
                 /\ pl.processedCapabilities
            ELSE /\ pl.Payload = WholePayload(LastInput)
                 /\ pl.processedCapabilities = SplitBefore

\* a packet without a NUL, then a packet with two: the second is split
C27_Witness ==
    /\ Len(stream) = 2
    /\ HasPayload(stream[1]) /\ PayloadNULs(stream[1]) = {}
    /\ stream[2].body = [len |-> 3, nuls |-> {1, 3}]
    /\ pl.Payload = [len |-> 0, nuls |-> {}]
    /\ pl.CapabilitiesPayload = [len |-> 2, nuls |-> {2}]

----------------------------------------------------------------------------
(* C28 *)

\* a payload was written and what was written was read
WroteAndRead == wrote.via # ""

\* C28 as stated: the payload of the packet read is the payload written,
\* for every payload of at most 65,516 bytes.
C28_Original ==
    (WroteAndRead /\ wrote.payload.len <= 65516)
      => pl.err = "" /\ pl.Payload = wrote.payload

\* C28: a payload of more than 65,516 bytes is not written; the empty
\* payload is written as 0004 by writePacketLine and read as the empty
\* payload, and is not written at all by writePacketf; any other payload is
\* read as it was written if it holds no NUL or the reader has split a
\* packet before, and is read up to its first NUL by a reader that has not.
C28_RoundTrip ==
    WroteAndRead
      => IF wrote.payload.len > 65516
         THEN wrote.err # "" /\ pl.err = "EOF"
         ELSE /\ wrote.err = ""
              /\ IF wrote.payload.len = 0
                 THEN IF wrote.via = "writePacketf" THEN pl.err = "EOF"
                      ELSE pl.err = "" /\ pl.Payload.len = 0
                 ELSE /\ pl.err = ""
                      /\ LastInput.header
                           = << (wrote.payload.len + 4) \div 4096,
                                ((wrote.payload.len + 4) \div 256) % 16,
                                ((wrote.payload.len + 4) \div 16) % 16,
                                (wrote.payload.len + 4) % 16 >>
                      /\ IF wrote.payload.nuls = {} \/ SplitBefore
                         THEN pl.Payload = wrote.payload
                         ELSE /\ pl.Payload.len < wrote.payload.len
                              /\ pl.Payload.len + 1 \in wrote.payload.nuls
                              /\ pl.Payload.nuls = {}

\* a payload of 65,516 bytes came back as it was written
C28_Witness ==
    /\ wrote.via = "writePacketf"
    /\ wrote.payload = [len |-> 65516, nuls |-> {}]
    /\ pl.err = ""
    /\ pl.Payload = wrote.payload

----------------------------------------------------------------------------
(* C31 *)

\* C31: a side-band packet of index-pack's stderr that cannot be written to
\* the client makes the pack intake fail: once readPack has returned after
\* such a failure, it has returned an error.
C31_MuxFailureSurfaced ==
    (mux = "failed" /\ pc \in {"connectivity", "report", "finish", "exited"})
      => unpackErr # ""

----------------------------------------------------------------------------
(* C32 *)

\* C32: without a side band, what index-pack writes to its stderr goes on
\* to the stderr of the session: no byte of it is held in a pipe that
\* nobody reads, and index-pack is not blocked in a write to a full pipe.
C32_StderrPassedThrough ==
    (pc = "indexpack" /\ ~useSideBand(capabilities))
      => /\ stderrPipe # "unread"
         /\ stderrPipe # "full"

----------------------------------------------------------------------------
(* C33 *)

\* the packets of the report that was sent, and their number
ReportPackets == sent.out
ReportChunkMax == IF SideBand64k \in sent.caps THEN 65519 - 5 ELSE 999 - 5

----------------------------------------------------------------------------
(* C34 *)

\* C34: when no line was advertised, the one packet of the completed
\* advertisement is the null OID, a space, capabilities^{}, a NUL, the
\* capability line and a newline that ends the payload.
C34_LonelyPacketNewline ==
    (AdvertisementComplete /\ Len(advertisement) = 1
       /\ advertisement[1].line = LonelyLine)
      => /\ advertisement[1].caps
         /\ advertisement[1].lf

----------------------------------------------------------------------------
(* C35 *)

\* C35: a process that has exited and held a governor handle has sent
\* exactly one finish message, the last message it sent, and the result
\* code of that message is 0 if and only if the exit code is 0; this holds
\* for every way execute and the steps before it can end.
C35_FinishOnceWithResult ==
    (Exited /\ govConn # "nil")
      => /\ govConn = "closed"
         /\ Len(SelectSeq(govSent, LAMBDA m : m = "finish")) = 1
         /\ govSent[Len(govSent)] = "finish"
         /\ finishCode = 0 <=> exitCode = 0

\* a push under a governor ended with an error of readCommands: one finish
\* message with the result code 1
C35_Witness ==
    /\ Exited
    /\ govConn = "closed"
    /\ errMsg = "reading commands"
    /\ exitCode = 1 /\ finishCode = 1
    /\ govSent[Len(govSent)] = "finish"

----------------------------------------------------------------------------
(* C36 *)

\* C36: whatever one read of index-pack's stderr returns, from one byte to
\* the size of the buffer, the multiplexer writes it as one packet of side
\* band 2 whose payload, the channel byte included, is at most 65,516
\* bytes, and writePacketLine does not refuse it.
C36_MuxPayloadFits ==
    sent.op = "mux"
      => /\ sent.err = ""
         /\ Len(sent.out) = 1
         /\ sent.out[1].kind = "band2"
         /\ 1 + (sent.out[1].to - sent.out[1].from) <= 65516

----------------------------------------------------------------------------
(* C37 *)

\* the refs of the repository that the advertisement holds
AdvertisedRefs ==
    {advertisement[i].line.name :
        i \in {k \in 1..Len(advertisement) :
                 advertisement[k].line.kind = "ref"}}

\* C37: the refs of the repository in a completed advertisement are the
\* refs that isHiddenRef, the test readCommands applies to a push target,
\* does not hide, whatever the list of rules.
C37_AdvertisedIffNotHidden ==
    AdvertisementComplete
      => AdvertisedRefs
           = {refStore.refs[i] :
                i \in {k \in 1..Len(refStore.refs) :
                         ~isHiddenRef(refStore.refs[k], hiddenRefs)}}

----------------------------------------------------------------------------
(* C38 *)

\* C38: no ref of the repository is in two packets of an advertisement,
\* with or without unhide rules.
C38_AdvertisedOnce ==
    \A i, j \in 1..Len(advertisement) :
       (i # j /\ advertisement[i].line.kind = "ref"
          /\ advertisement[j].line.kind = "ref")
         => advertisement[i].line.name # advertisement[j].line.name

----------------------------------------------------------------------------
(* C39 *)

\* C39: a Read that returns no error has taken from the input the four
\* bytes of the header and the bytes of the payload the header announces,
\* and no byte after them: what follows a flush packet, the first byte of
\* the pack, is left in the input.
C39_ReadTakesThePacketOnly ==
    (Len(stream) > 0 /\ pl.err = "")
      => LET n == HeaderValue(LastInput.header)
             total == Len(LastInput.header) + LastInput.body.len
         IN  /\ rest = total - (IF n > 4 THEN n ELSE 4)
             /\ n = 0 => rest = LastInput.body.len

\* a packet with a payload, then a flush packet that two bytes follow: the
\* two bytes are left
C39_Witness ==
    /\ Len(stream) = 2
    /\ HasPayload(stream[1])
    /\ stream[2].header = <<0, 0, 0, 0>>
    /\ stream[2].body.len = 2
    /\ pl.err = ""
    /\ rest = 2

----------------------------------------------------------------------------
(* C40 *)

\* C40: under a governor that says wait a finite number of times, the
\* schedule loop, once entered, ends; and it ends in the round of the first
\* reply that is not wait, not before: Start gives up after no number of
\* rounds and no amount of sleep of its own.
C40_HandshakeTerminates ==
    /\ InLoop ~> ~InLoop
    /\ [](LoopEnded
            => /\ govRound = LeadingWaits(governorEnv.replies, 1) + 1
               /\ Len(govSlept) = LeadingWaits(governorEnv.replies, 1))

\* the loop ended after MaxWaits replies of wait, the last two of them with
\* two seconds of sleep, on a reply that is none of continue, wait and fail
C40_Witness ==
    /\ LoopEnded
    /\ LeadingWaits(governorEnv.replies, 1) = MaxWaits
    /\ Len(govSlept) = MaxWaits
    /\ govSlept[MaxWaits] = 2
    /\ governorEnv.replies[MaxWaits + 1] = "other"
    /\ govConn = "nil"

====
